---- MODULE Spec2Model ----
(***************************************************************************)
(* Model of the multi-dimensional drama analyzer                           *)
(* (src/analyzer/multi_dimensional_analyzer.py).                           *)
(*                                                                         *)
(* Numbers.  Every score of the analyzer is a float rounded to two         *)
(* decimals, so a score is modelled by the integer number of hundredths    *)
(* (10.0 is 1000, 1.5 is 150).  A weighted sum of scores is kept in units  *)
(* of 1/10000 before it is rounded.  round(x, 2) is modelled by Round2 on  *)
(* exact decimal arithmetic (ties to even, as Python rounds an exactly     *)
(* representable tie); binary representation error of the floats is not    *)
(* modelled.  A mean (sum / n) is kept as the exact fraction               *)
(* [num |-> sum, den |-> n].  The speech-act rates of a profile are        *)
(* computed from integer counts, which a float holds exactly, so they are  *)
(* modelled as the IEEE 754 doubles the divisions, multiplications and     *)
(* additions produce (round to nearest, ties to even).                     *)
(*                                                                         *)
(* Texts.  A text is represented by what the analyzer reads from it: its   *)
(* trimmed length, the compound polarity VADER returns for it (in          *)
(* 1/10000, -10000..10000), the subjectivity TextBlob returns for it (in   *)
(* 1/10000, 0..10000) and, for each of the 20 pattern sets, the number     *)
(* _count_patterns returns for it.  Where the matching itself matters the  *)
(* text is given by its characters, and the counts are those the compiled  *)
(* patterns of pattern_libraries.py find in it (Read).                     *)
(***************************************************************************)
EXTENDS Integers, Sequences, FiniteSets, TLC

VARIABLES
    text,       \* analyzer: the text handed to analyze
    scores,     \* analyzer: the DimensionalScores analyze returned for it
    pc,         \* analyzer: "idle" before the call, "done" after it
    prev,       \* analyzer: the scores of the call before the last one, or the
                \* query made last and what it returned
    memo,       \* analyzer: for each text analysed so far, what its first call returned
    messages,   \* thread aggregator: the message list handed to analyze_thread
    thread,     \* thread aggregator: the result analyze_thread returned for it
    profiles,   \* participant profiler: self.profiles, handle -> ParticipantProfile
    profile_keys,   \* participant profiler: the keys of self.profiles in insertion order
    _score_history, \* participant profiler: self._score_history, handle -> list of scores
    calls       \* participant profiler: the frames of the add_message calls of concurrent callers

vars == <<text, scores, pc, prev, memo, messages, thread, profiles, profile_keys, _score_history,
          calls>>

(***************************************************************************)
(* Bounds of the model.                                                    *)
(***************************************************************************)
\* Largest number of matches of one pattern set in the swept texts.
MaxCount == 3
\* Largest number of messages in a thread.
MaxThread == 6

(***************************************************************************)
(* Pattern sets imported by the analyzer.                                  *)
(***************************************************************************)
PolitenessSets == {"POSITIVE_POLITENESS", "HEDGES", "FACE_THREATENING", "INDIRECT_AGGRESSION"}
SpeechActSets == {"DIRECTIVES", "EXPRESSIVES", "ACCUSATIONS", "CHALLENGES"}
QualitySets == {"EVIDENCE_MARKERS", "ACKNOWLEDGMENT", "CONSTRUCTIVE", "DISMISSIVE"}
FallacySets == {"AD_HOMINEM", "STRAWMAN", "APPEAL_TO_AUTHORITY", "MOVING_GOALPOSTS", "WHATABOUTISM"}
SpecialSets == {"STONEWALLING", "THREATS", "DISMISS_WITHOUT_ENGAGEMENT"}
PatternSets == PolitenessSets \cup SpeechActSets \cup QualitySets \cup FallacySets \cup SpecialSets

\* _count_patterns(text, patterns): the number of matches of the set in the text.
_count_patterns(t, patterns) == t.counts[patterns]

(***************************************************************************)
(* Arithmetic helpers.                                                     *)
(***************************************************************************)
Min(a, b) == IF a <= b THEN a ELSE b
Max(a, b) == IF a >= b THEN a ELSE b

\* round(n/d, 2-decimal grid): n / d rounded to the nearest integer, ties to even
\* (n >= 0, d > 0).
Round2(n, d) ==
    LET q == n \div d
        r == n % d
    IN  IF 2 * r < d THEN q
        ELSE IF 2 * r > d THEN q + 1
        ELSE IF q % 2 = 0 THEN q ELSE q + 1

(***************************************************************************)
(* DimensionalScores: the record with its defaults.                        *)
(***************************************************************************)
NoPatterns == [k \in {} |-> 0]

\* A mutant of DimensionalScores: the default neutrality is the midpoint 5,
\* like the default politeness.
DimensionalScores_neutral ==
    [vader_negativity |-> 0, subjectivity |-> 0, politeness |-> 500,
     face_threats |-> 0, argument_quality |-> 500, fallacy_score |-> 0,
     directive_count |-> 0, expressive_count |-> 0, accusation_count |-> 0,
     challenge_count |-> 0, stonewalling_indicators |-> 0, threat_indicators |-> 0,
     drama_score |-> 0, neutrality_score |-> 500, health_assessment |-> "unknown",
     evidence |-> [text_length |-> 0, patterns |-> NoPatterns]]

DimensionalScores ==
    [vader_negativity |-> 0, subjectivity |-> 0, politeness |-> 500,
     face_threats |-> 0, argument_quality |-> 500, fallacy_score |-> 0,
     directive_count |-> 0, expressive_count |-> 0, accusation_count |-> 0,
     challenge_count |-> 0, stonewalling_indicators |-> 0, threat_indicators |-> 0,
     drama_score |-> 0, neutrality_score |-> 0, health_assessment |-> "unknown",
     evidence |-> [text_length |-> 0, patterns |-> NoPatterns]]

(***************************************************************************)
(* analyze, steps 1-7: one operator per stored dimension.                  *)
(***************************************************************************)
\* round((1 - compound) * 5, 2); compound in 1/10000.
VaderNegativity(compound) == Round2((10000 - compound) * 5, 100)

\* round(blob.sentiment.subjectivity * 10, 2); subjectivity in 1/10000.
Subjectivity(subjectivity) == Round2(subjectivity * 10, 100)

\* A mutant of Politeness: the upper clamp min(10, .) is missing.
Politeness_noclamp(positive_count, hedge_count, fta_count, indirect_agg_count) ==
    Max(0, 500 + (positive_count * 200 + hedge_count * 100)
               - (fta_count * 200 + indirect_agg_count * 150))

\* A mutant of Politeness: face-threatening acts raise the score.
Politeness_sign(positive_count, hedge_count, fta_count, indirect_agg_count) ==
    Max(0, Min(1000, 500 + (positive_count * 200 + hedge_count * 100)
                         + (fta_count * 200 - indirect_agg_count * 150)))

\* politeness_raw and scores.politeness.
Politeness(positive_count, hedge_count, fta_count, indirect_agg_count) ==
    LET politeness_raw == (positive_count * 200 + hedge_count * 100)
                          - (fta_count * 200 + indirect_agg_count * 150)
    IN  Max(0, Min(1000, 500 + politeness_raw))

\* scores.face_threats.
FaceThreats(fta_count, indirect_agg_count) ==
    Min(1000, (fta_count + indirect_agg_count) * 200)

\* A mutant of ArgumentQuality: constructive proposals weigh 2 instead of 1.5.
ArgumentQuality_weight(evidence_count, ack_count, constructive_count, dismissive_count) ==
    Max(0, Min(1000, 500 + (evidence_count * 200 + ack_count * 200 + constructive_count * 200)
                         - dismissive_count * 200))

\* A mutant of ArgumentQuality: acknowledgments and proposals lower the score.
ArgumentQuality_sign(evidence_count, ack_count, constructive_count, dismissive_count) ==
    Max(0, Min(1000, 500 + evidence_count * 200
                         - (ack_count * 200 + constructive_count * 150 + dismissive_count * 200)))

\* quality_raw and scores.argument_quality.
ArgumentQuality(evidence_count, ack_count, constructive_count, dismissive_count) ==
    LET quality_raw == (evidence_count * 200 + ack_count * 200 + constructive_count * 150)
                       - (dismissive_count * 200)
    IN  Max(0, Min(1000, 500 + quality_raw))

\* scores.fallacy_score.
FallacyScore(total_fallacies) == Min(1000, total_fallacies * 250)

(***************************************************************************)
(* _calculate_composite_scores.                                            *)
(***************************************************************************)
\* speech_act_drama, in hundredths.
SpeechActDrama(s) ==
    Min(1000, s.accusation_count * 300 + s.challenge_count * 250
              + s.expressive_count * 150 + s.directive_count * 50)

\* stonewalling_penalty, in hundredths.
StonewallingPenalty(s) == Min(300, s.stonewalling_indicators * 150)

\* The weighted sum of the drama formula, in 1/10000.
DramaWeighted(s) ==
    s.vader_negativity * 20 + (1000 - s.politeness) * 20 + s.face_threats * 15
    + s.subjectivity * 10 + s.fallacy_score * 15 + (1000 - s.argument_quality) * 10
    + SpeechActDrama(s) * 10

\* A mutant of DramaScore: the cap min(10, .) after the penalty is missing.
DramaScore_nocap(s) == Round2(DramaWeighted(s), 100) + StonewallingPenalty(s)

\* A mutant of DramaScore: the stonewalling penalty is weighted like the other terms.
DramaScore_penalty(s) ==
    Min(1000, Round2(DramaWeighted(s) + StonewallingPenalty(s) * 10, 100))

\* scores.drama_score: the rounded weighted sum, plus the penalty, capped at 10.
DramaScore(s) == Min(1000, Round2(DramaWeighted(s), 100) + StonewallingPenalty(s))

\* The weighted sum of the neutrality formula, in 1/10000.
NeutralityWeighted(s) ==
    (1000 - s.subjectivity) * 30 + s.argument_quality * 30 + s.politeness * 20
    + (1000 - s.fallacy_score) * 10 + (1000 - s.face_threats) * 10

\* A mutant of NeutralityScore: subjectivity is not inverted.
NeutralityScore_subj(s) ==
    Round2(s.subjectivity * 30 + s.argument_quality * 30 + s.politeness * 20
           + (1000 - s.fallacy_score) * 10 + (1000 - s.face_threats) * 10, 100)

\* scores.neutrality_score.
NeutralityScore(s) == Round2(NeutralityWeighted(s), 100)

\* A mutant of HealthAssessment: heated-but-fair does not test neutrality, so
\* that it overlaps toxic and the order of the branches matters.
HealthAssessment_overlap(drama_score, neutrality_score) ==
    IF drama_score >= 600 /\ neutrality_score < 500 THEN "toxic"
    ELSE IF drama_score >= 500 THEN "heated-but-fair"
    ELSE IF drama_score < 400 /\ neutrality_score >= 600 THEN "productive"
    ELSE IF drama_score < 400 /\ neutrality_score < 500 THEN "dismissive"
    ELSE "mixed"

\* A mutant of HealthAssessment: heated-but-fair starts at drama >= 6, like toxic.
HealthAssessment_strict(drama_score, neutrality_score) ==
    IF drama_score >= 600 /\ neutrality_score < 500 THEN "toxic"
    ELSE IF drama_score >= 600 /\ neutrality_score >= 500 THEN "heated-but-fair"
    ELSE IF drama_score < 400 /\ neutrality_score >= 600 THEN "productive"
    ELSE IF drama_score < 400 /\ neutrality_score < 500 THEN "dismissive"
    ELSE "mixed"

\* The if/elif chain that sets scores.health_assessment.
HealthAssessment(drama_score, neutrality_score) ==
    IF drama_score >= 600 /\ neutrality_score < 500 THEN "toxic"
    ELSE IF drama_score >= 500 /\ neutrality_score >= 500 THEN "heated-but-fair"
    ELSE IF drama_score < 400 /\ neutrality_score >= 600 THEN "productive"
    ELSE IF drama_score < 400 /\ neutrality_score < 500 THEN "dismissive"
    ELSE "mixed"

_calculate_composite_scores(s) ==
    LET d == DramaScore(s)
        n == NeutralityScore(s)
    IN  [s EXCEPT !.drama_score = d,
                  !.neutrality_score = n,
                  !.health_assessment = HealthAssessment(d, n)]

(***************************************************************************)
(* analyze.                                                                *)
(***************************************************************************)
\* A mutant of IsDegenerate: only the empty text short-circuits.
IsDegenerate_empty(t) == t.len = 0

\* not text or len(text.strip()) < 10
IsDegenerate(t) == t.len < 10

\* Steps 1-7 of analyze: the dimensions and counters of a scored text; the
\* composites still hold their defaults.
Dimensions(t) ==
    LET positive_count == _count_patterns(t, "POSITIVE_POLITENESS")
        hedge_count == _count_patterns(t, "HEDGES")
        fta_count == _count_patterns(t, "FACE_THREATENING")
        indirect_agg_count == _count_patterns(t, "INDIRECT_AGGRESSION")
        evidence_count == _count_patterns(t, "EVIDENCE_MARKERS")
        ack_count == _count_patterns(t, "ACKNOWLEDGMENT")
        constructive_count == _count_patterns(t, "CONSTRUCTIVE")
        dismissive_count == _count_patterns(t, "DISMISSIVE")
        ad_hom == _count_patterns(t, "AD_HOMINEM")
        strawman == _count_patterns(t, "STRAWMAN")
        authority == _count_patterns(t, "APPEAL_TO_AUTHORITY")
        goalposts == _count_patterns(t, "MOVING_GOALPOSTS")
        whatabout == _count_patterns(t, "WHATABOUTISM")
        total_fallacies == ad_hom + strawman + authority + goalposts + whatabout
    IN  [vader_negativity |-> VaderNegativity(t.compound),
         subjectivity |-> Subjectivity(t.subjectivity),
         politeness |-> Politeness(positive_count, hedge_count, fta_count, indirect_agg_count),
         face_threats |-> FaceThreats(fta_count, indirect_agg_count),
         argument_quality |-> ArgumentQuality(evidence_count, ack_count,
                                              constructive_count, dismissive_count),
         fallacy_score |-> FallacyScore(total_fallacies),
         directive_count |-> _count_patterns(t, "DIRECTIVES"),
         expressive_count |-> _count_patterns(t, "EXPRESSIVES"),
         accusation_count |-> _count_patterns(t, "ACCUSATIONS"),
         challenge_count |-> _count_patterns(t, "CHALLENGES"),
         stonewalling_indicators |-> _count_patterns(t, "STONEWALLING")
                                     + _count_patterns(t, "DISMISS_WITHOUT_ENGAGEMENT"),
         threat_indicators |-> _count_patterns(t, "THREATS"),
         drama_score |-> DimensionalScores.drama_score,
         neutrality_score |-> DimensionalScores.neutrality_score,
         health_assessment |-> DimensionalScores.health_assessment,
         evidence |-> [text_length |-> t.len, patterns |-> t.counts]]

\* A mutant of analyze: the scores object is shared between calls, so the
\* += of the stonewalling count adds to what the call before left in it.
analyze_shared(t) ==
    IF IsDegenerate(t)
    THEN [DimensionalScores EXCEPT
            !.evidence = [text_length |-> t.len, patterns |-> NoPatterns]]
    ELSE _calculate_composite_scores(
            [Dimensions(t) EXCEPT !.stonewalling_indicators = @ + scores.stonewalling_indicators])

analyze(t) ==
    IF IsDegenerate(t)
    THEN [DimensionalScores EXCEPT
            !.evidence = [text_length |-> t.len, patterns |-> NoPatterns]]
    ELSE _calculate_composite_scores(Dimensions(t))

(***************************************************************************)
(* analyze_thread.  A message is a dict: a function whose domain holds the *)
(* keys it has.  None stands for Python's None.                            *)
(***************************************************************************)
None == [none |-> TRUE]
EmptyText == [len |-> 0, compound |-> 0, subjectivity |-> 0,
              counts |-> [k \in PatternSets |-> 0]]
TypeError == [error |-> "TypeError"]
\* None as the value of an author field: as a dict key it differs from every str.
NoneKey == "<None>"

\* msg.get(key, default)
Get(msg, key, default) == IF key \in DOMAIN msg THEN msg[key] ELSE default

RECURSIVE SumSeq(_)
SumSeq(q) == IF q = <<>> THEN 0 ELSE Head(q) + SumSeq(Tail(q))

RECURSIVE MaxSeq(_)
MaxSeq(q) == IF Len(q) = 1 THEN q[1] ELSE Max(Head(q), MaxSeq(Tail(q)))

\* The keys of a dict in insertion order: the distinct elements of q in the
\* order of their first occurrence.
RECURSIVE KeysInOrder(_)
KeysInOrder(q) ==
    IF q = <<>> THEN <<>>
    ELSE LET front == KeysInOrder(SubSeq(q, 1, Len(q) - 1))
             last == q[Len(q)]
         IN  IF \E i \in 1..Len(front) : front[i] = last THEN front
             ELSE Append(front, last)

\* [x for x in q if test[x]], for a sequence q of keys.
RECURSIVE Filter(_, _)
Filter(q, test) ==
    IF q = <<>> THEN <<>>
    ELSE IF test[Head(q)] THEN <<Head(q)>> \o Filter(Tail(q), test)
    ELSE Filter(Tail(q), test)

\* A mean sum / n as an exact fraction, and its comparisons with a score x
\* given in hundredths.
\* A mutant of Mean: the mean is rounded to two decimals before it is used.
Mean_rounded(sum, n) == [num |-> Round2(sum, n), den |-> 1]

Mean(sum, n) == [num |-> sum, den |-> n]
Gt(m, x) == m.num > x * m.den
Ge(m, x) == m.num >= x * m.den
Lt(m, x) == m.num < x * m.den

\* A mutant of _assess_thread_health: a mean drama of exactly 6 is not toxic.
_assess_thread_health_gt(drama, neutrality) ==
    IF Gt(drama, 600) /\ Lt(neutrality, 500) THEN "toxic"
    ELSE IF Ge(drama, 500) /\ Ge(neutrality, 500) THEN "heated-but-fair"
    ELSE IF Lt(drama, 400) /\ Ge(neutrality, 600) THEN "productive"
    ELSE IF Lt(drama, 400) /\ Lt(neutrality, 500) THEN "dismissive"
    ELSE "mixed"

\* _assess_thread_health(drama, neutrality), on means.
_assess_thread_health(drama, neutrality) ==
    IF Ge(drama, 600) /\ Lt(neutrality, 500) THEN "toxic"
    ELSE IF Ge(drama, 500) /\ Ge(neutrality, 500) THEN "heated-but-fair"
    ELSE IF Lt(drama, 400) /\ Ge(neutrality, 600) THEN "productive"
    ELSE IF Lt(drama, 400) /\ Lt(neutrality, 500) THEN "dismissive"
    ELSE "mixed"

\* A mutant of IsPileOn: 5 authors are enough (>= 5 instead of > 5).
IsPileOn_ge(avg_drama, unique_authors, max_drama) ==
    Gt(avg_drama, 500) /\ unique_authors >= 5 /\ max_drama > 700

\* is_pile_on
IsPileOn(avg_drama, unique_authors, max_drama) ==
    Gt(avg_drama, 500) /\ unique_authors > 5 /\ max_drama > 700

\* [f(x) for x in q] for the three fields the aggregates read.
RECURSIVE DramaOf(_)
DramaOf(q) == IF q = <<>> THEN <<>> ELSE <<Head(q).drama_score>> \o DramaOf(Tail(q))
RECURSIVE NeutralityOf(_)
NeutralityOf(q) == IF q = <<>> THEN <<>> ELSE <<Head(q).neutrality_score>> \o NeutralityOf(Tail(q))
RECURSIVE StonewallingOf(_)
StonewallingOf(q) ==
    IF q = <<>> THEN <<>> ELSE <<Head(q).stonewalling_indicators>> \o StonewallingOf(Tail(q))

\* A mutant of AuthorAnalysis: the stonewalling threshold is the profiler's (> 3).
AuthorAnalysis_profiler(scores_list) ==
    LET n == Len(scores_list)
        author_drama == Mean(SumSeq(DramaOf(scores_list)), n)
        author_neutrality == Mean(SumSeq(NeutralityOf(scores_list)), n)
        stonewalling == SumSeq(StonewallingOf(scores_list))
    IN  [message_count |-> n,
         avg_drama |-> Round2(author_drama.num, author_drama.den),
         avg_neutrality |-> Round2(author_neutrality.num, author_neutrality.den),
         stonewalling_indicators |-> stonewalling,
         is_difficult |-> (stonewalling > 3
                           \/ (Gt(author_drama, 600) /\ Lt(author_neutrality, 400)))]

\* The per-author entry of author_analysis, from the author's scores_list.
AuthorAnalysis(scores_list) ==
    LET n == Len(scores_list)
        author_drama == Mean(SumSeq(DramaOf(scores_list)), n)
        author_neutrality == Mean(SumSeq(NeutralityOf(scores_list)), n)
        stonewalling == SumSeq(StonewallingOf(scores_list))
    IN  [message_count |-> n,
         avg_drama |-> Round2(author_drama.num, author_drama.den),
         avg_neutrality |-> Round2(author_neutrality.num, author_neutrality.den),
         stonewalling_indicators |-> stonewalling,
         is_difficult |-> (stonewalling > 2
                           \/ (Gt(author_drama, 600) /\ Lt(author_neutrality, 400)))]

\* The loop over the messages: message_scores, the score of every message.
RECURSIVE MessageScores(_)
MessageScores(msgs) ==
    IF msgs = <<>> THEN <<>>
    ELSE <<analyze(Get(Head(msgs), "content", EmptyText))>> \o MessageScores(Tail(msgs))

\* The loop over the messages: the author every message is filed under.
RECURSIVE MessageAuthors(_)
MessageAuthors(msgs) ==
    IF msgs = <<>> THEN <<>>
    ELSE <<Get(Head(msgs), "author", "unknown")>> \o MessageAuthors(Tail(msgs))

\* author_scores[a]: the scores of a's messages, in thread order.
RECURSIVE ScoresOfAuthor(_, _, _)
ScoresOfAuthor(authors, message_scores, a) ==
    IF authors = <<>> THEN <<>>
    ELSE (IF Head(authors) = a THEN <<Head(message_scores)>> ELSE <<>>)
         \o ScoresOfAuthor(Tail(authors), Tail(message_scores), a)

\* A mutant of EmptyThreadAnalysis: the empty thread is labelled like an
\* unclassified one.
EmptyThreadAnalysis_mixed == [drama_score |-> 0, neutrality_score |-> 500, health |-> "mixed"]

\* The dict returned for an empty message list.
EmptyThreadAnalysis == [drama_score |-> 0, neutrality_score |-> 500, health |-> "empty"]

analyze_thread(msgs) ==
    IF msgs = <<>>
    THEN EmptyThreadAnalysis
    ELSE IF \E i \in 1..Len(msgs) : Get(msgs[i], "content", EmptyText) = None
    THEN TypeError   \* analyze(None): len(None) raises
    ELSE
    LET n == Len(msgs)
        message_scores == MessageScores(msgs)
        authors == MessageAuthors(msgs)
        author_keys == KeysInOrder(authors)
        drama_scores == DramaOf(message_scores)
        neutrality_scores == NeutralityOf(message_scores)
        avg_drama == Mean(SumSeq(drama_scores), n)
        avg_neutrality == Mean(SumSeq(neutrality_scores), n)
        max_drama == MaxSeq(drama_scores)
        unique_authors == Len(author_keys)
        is_difficult == [a \in {author_keys[i] : i \in 1..unique_authors} |->
                            AuthorAnalysis(ScoresOfAuthor(authors, message_scores, a)).is_difficult]
    IN  [thread_drama_score |-> Round2(avg_drama.num, avg_drama.den),
         thread_neutrality_score |-> Round2(avg_neutrality.num, avg_neutrality.den),
         max_drama |-> max_drama,
         message_count |-> n,
         unique_authors |-> unique_authors,
         is_pile_on |-> IsPileOn(avg_drama, unique_authors, max_drama),
         health_assessment |-> _assess_thread_health(avg_drama, avg_neutrality),
         author_analysis |-> [a \in {author_keys[i] : i \in 1..unique_authors} |->
                                AuthorAnalysis(ScoresOfAuthor(authors, message_scores, a))],
         difficult_participants |-> Filter(author_keys, is_difficult)]

(***************************************************************************)
(* Python floats: IEEE 754 doubles that are zero or positive and normal.   *)
(* A double is [exp |-> e, sig |-> m]: m is its significand of 53 bits, a  *)
(* natural number in [2^52, 2^53), and its value is m * 2^(e - 52); zero   *)
(* has the significand 0.  A natural number too large for one integer of   *)
(* the model is the sequence of its digits in base 2^15, most significant  *)
(* first and without leading zeros (0 is the empty sequence).              *)
(***************************************************************************)
\* The number of bits of the significand of a double.
Precision == 53
\* The bits of one digit of a large natural number.
LimbBits == 15

RECURSIVE Pow2(_)
Pow2(k) == IF k = 0 THEN 1 ELSE 2 * Pow2(k - 1)

Base == Pow2(LimbBits)

\* The number of binary digits of n.
RECURSIVE BitLength(_)
BitLength(n) == IF n = 0 THEN 0 ELSE 1 + BitLength(n \div 2)

RECURSIVE NatOfInt(_)
NatOfInt(n) == IF n = 0 THEN <<>> ELSE Append(NatOfInt(n \div Base), n % Base)

RECURSIVE NatStrip(_)
NatStrip(a) == IF a = <<>> THEN a ELSE IF Head(a) = 0 THEN NatStrip(Tail(a)) ELSE a

\* a * k + carry, for k < 2^15 and carry < 2^15.
RECURSIVE NatMulAdd(_, _, _)
NatMulAdd(a, k, carry) ==
    IF a = <<>> THEN NatOfInt(carry)
    ELSE LET v == a[Len(a)] * k + carry
         IN  Append(NatMulAdd(SubSeq(a, 1, Len(a) - 1), k, v \div Base), v % Base)

\* a < b for digit sequences of the same length.
RECURSIVE LexLess(_, _)
LexLess(a, b) ==
    IF a = <<>> THEN FALSE
    ELSE IF Head(a) # Head(b) THEN Head(a) < Head(b)
    ELSE LexLess(Tail(a), Tail(b))

\* a < b
NatLess(a, b) == Len(a) < Len(b) \/ (Len(a) = Len(b) /\ LexLess(a, b))

\* The number of binary digits of a.
NatBitLength(a) == IF a = <<>> THEN 0 ELSE LimbBits * (Len(a) - 1) + BitLength(a[1])

\* a * 2^s
NatShiftLeft(a, s) ==
    IF a = <<>> THEN a
    ELSE NatMulAdd(a, Pow2(s % LimbBits), 0) \o [i \in 1..(s \div LimbBits) |-> 0]

\* The digits of a \div d, with leading zeros, followed by a % d; d < 2^16.
RECURSIVE NatDivMod(_, _, _)
NatDivMod(a, d, r) ==
    IF a = <<>> THEN <<r>>
    ELSE LET v == r * Base + Head(a)
         IN  <<v \div d>> \o NatDivMod(Tail(a), d, v % d)

\* a \div d and a % d, for d < 2^16.
NatDiv(a, d) == NatStrip(SubSeq(NatDivMod(a, d, 0), 1, Len(a)))
NatMod(a, d) == NatDivMod(a, d, 0)[Len(a) + 1]

\* a \div 2^s and a % 2^s
NatShiftRight(a, s) ==
    NatDiv(SubSeq(a, 1, Len(a) - (s \div LimbBits)), Pow2(s % LimbBits))
NatLowBits(a, s) ==
    LET m == s \div LimbBits
    IN  NatStrip(<<NatMod(SubSeq(a, 1, Len(a) - m), Pow2(s % LimbBits))>>
                 \o SubSeq(a, Len(a) - m + 1, Len(a)))

FloatZero == [exp |-> 0, sig |-> <<>>]
IsFloatZero(x) == x.sig = <<>>

\* The double nearest to a * 2^e, ties to even, for a natural number a > 0.
RoundToDouble(a, e) ==
    LET length == NatBitLength(a)
        drop == length - Precision
    IN  IF drop <= 0 THEN [exp |-> e + length - 1, sig |-> NatShiftLeft(a, 0 - drop)]
        ELSE LET kept == NatShiftRight(a, drop)
                 rest == NatLowBits(a, drop)
                 half == NatShiftLeft(<<1>>, drop - 1)
                 up == NatLess(half, rest) \/ (rest = half /\ kept[Len(kept)] % 2 = 1)
                 raised == NatMulAdd(kept, 1, 1)
             IN  IF ~up THEN [exp |-> e + length - 1, sig |-> kept]
                 ELSE IF NatBitLength(raised) = Precision
                 THEN [exp |-> e + length - 1, sig |-> raised]
                 ELSE [exp |-> e + length, sig |-> NatShiftRight(raised, 1)]

\* float(k) for a natural number k.
FloatOfInt(k) == IF k = 0 THEN FloatZero ELSE RoundToDouble(NatOfInt(k), 0)

\* c / t for naturals c >= 0 and 0 < t < 2^15: the quotient to 72 binary
\* places, and one more digit that tells whether anything is left of it.
FloatDiv(c, t) ==
    IF c = 0 THEN FloatZero
    ELSE LET scaled == NatShiftLeft(NatOfInt(c), 72)
             left == IF NatMod(scaled, t) = 0 THEN 0 ELSE 1
         IN  RoundToDouble(NatMulAdd(NatDiv(scaled, t), 2, left), 0 - 73)

\* x * k for a double x and a natural number 0 < k < 2^15.
FloatMul(x, k) ==
    IF IsFloatZero(x) THEN FloatZero
    ELSE RoundToDouble(NatMulAdd(x.sig, k, 0), x.exp - (Precision - 1))

\* x < y
FloatLess(x, y) ==
    IF IsFloatZero(y) THEN FALSE
    ELSE IF IsFloatZero(x) THEN TRUE
    ELSE IF x.exp # y.exp THEN x.exp < y.exp
    ELSE LexLess(x.sig, y.sig)

(***************************************************************************)
(* ParticipantProfiler.                                                    *)
(***************************************************************************)
\* ParticipantProfile(handle=handle): the dataclass defaults.
ParticipantProfile(handle) ==
    [handle |-> handle, message_count |-> 0,
     avg_drama |-> Mean(0, 1), avg_neutrality |-> Mean(0, 1),
     avg_politeness |-> Mean(500, 1), avg_argument_quality |-> Mean(500, 1),
     avg_subjectivity |-> Mean(500, 1), avg_fallacy_rate |-> Mean(0, 1),
     avg_face_threats |-> Mean(0, 1),
     directive_rate |-> FloatZero, expressive_rate |-> FloatZero,
     accusation_rate |-> FloatZero,
     total_stonewalling |-> 0, is_difficult |-> FALSE]

RECURSIVE FieldSum(_, _)
FieldSum(history, field) ==
    IF history = <<>> THEN 0 ELSE Head(history)[field] + FieldSum(Tail(history), field)

\* A mutant of TotalSpeechActs: challenges are left out of the total.
TotalSpeechActs_nochallenge(history) ==
    LET speech_acts == FieldSum(history, "directive_count") + FieldSum(history, "expressive_count")
                       + FieldSum(history, "accusation_count")
    IN  IF speech_acts = 0 THEN 1 ELSE speech_acts

\* total_speech_acts: sum(...) or 1.
TotalSpeechActs(history) ==
    LET speech_acts == FieldSum(history, "directive_count") + FieldSum(history, "expressive_count")
                       + FieldSum(history, "accusation_count") + FieldSum(history, "challenge_count")
    IN  IF speech_acts = 0 THEN 1 ELSE speech_acts

\* A mutant of IsDifficultProfile: stonewalling does not count.
IsDifficultProfile_nostonewall(total_stonewalling, avg_drama, avg_neutrality, accusation_rate) ==
    \/ (Gt(avg_drama, 600) /\ Lt(avg_neutrality, 400))
    \/ FloatLess(FloatOfInt(20), accusation_rate)

\* A mutant of IsDifficultProfile: the stonewalling threshold is the thread
\* aggregator's (> 2).
IsDifficultProfile_thread(total_stonewalling, avg_drama, avg_neutrality, accusation_rate) ==
    \/ total_stonewalling > 2
    \/ (Gt(avg_drama, 600) /\ Lt(avg_neutrality, 400))
    \/ FloatLess(FloatOfInt(20), accusation_rate)

\* profile.is_difficult
IsDifficultProfile(total_stonewalling, avg_drama, avg_neutrality, accusation_rate) ==
    \/ total_stonewalling > 3
    \/ (Gt(avg_drama, 600) /\ Lt(avg_neutrality, 400))
    \/ FloatLess(FloatOfInt(20), accusation_rate)

\* sum(...) / total_speech_acts * 100
Rate(count, total_speech_acts) == FloatMul(FloatDiv(count, total_speech_acts), 100)

\* _update_profile(handle): the profile recomputed from the handle's history.
_update_profile(profile, history) ==
    LET n == Len(history)
        total_speech_acts == TotalSpeechActs(history)
        avg_drama == Mean(FieldSum(history, "drama_score"), n)
        avg_neutrality == Mean(FieldSum(history, "neutrality_score"), n)
        accusation_rate == Rate(FieldSum(history, "accusation_count"), total_speech_acts)
        total_stonewalling == FieldSum(history, "stonewalling_indicators")
    IN  IF n = 0 THEN [profile EXCEPT !.message_count = n]
        ELSE [handle |-> profile.handle,
              message_count |-> n,
              avg_drama |-> avg_drama,
              avg_neutrality |-> avg_neutrality,
              avg_politeness |-> Mean(FieldSum(history, "politeness"), n),
              avg_argument_quality |-> Mean(FieldSum(history, "argument_quality"), n),
              avg_subjectivity |-> Mean(FieldSum(history, "subjectivity"), n),
              avg_fallacy_rate |-> Mean(FieldSum(history, "fallacy_score"), n),
              avg_face_threats |-> Mean(FieldSum(history, "face_threats"), n),
              directive_rate |-> Rate(FieldSum(history, "directive_count"), total_speech_acts),
              expressive_rate |-> Rate(FieldSum(history, "expressive_count"), total_speech_acts),
              accusation_rate |-> accusation_rate,
              total_stonewalling |-> total_stonewalling,
              is_difficult |-> IsDifficultProfile(total_stonewalling, avg_drama,
                                                  avg_neutrality, accusation_rate)]

\* A mutant of add_message: the history is created anew on every call.
add_message_reset(handle, content) ==
    LET new_scores == analyze(content)
        known == handle \in DOMAIN profiles
        profile == ParticipantProfile(handle)
        history == <<new_scores>>
    IN  /\ _score_history' = [h \in DOMAIN _score_history \cup {handle} |->
                                IF h = handle THEN history ELSE _score_history[h]]
        /\ profiles' = [h \in DOMAIN profiles \cup {handle} |->
                          IF h = handle THEN _update_profile(profile, history)
                          ELSE profiles[h]]
        /\ profile_keys' = IF known THEN profile_keys ELSE Append(profile_keys, handle)

\* A mutant of add_message: a message too short to be scored is not recorded.
add_message_skipshort(handle, content) ==
    LET new_scores == analyze(content)
        known == handle \in DOMAIN profiles
        profile == IF known THEN profiles[handle] ELSE ParticipantProfile(handle)
        history == (IF known THEN _score_history[handle] ELSE <<>>)
                   \o (IF IsDegenerate(content) THEN <<>> ELSE <<new_scores>>)
    IN  /\ _score_history' = [h \in DOMAIN _score_history \cup {handle} |->
                                IF h = handle THEN history ELSE _score_history[h]]
        /\ profiles' = [h \in DOMAIN profiles \cup {handle} |->
                          IF h = handle THEN _update_profile(profile, history)
                          ELSE profiles[h]]
        /\ profile_keys' = IF known THEN profile_keys ELSE Append(profile_keys, handle)

\* A mutant of add_message: one history list is shared by all handles, so the
\* scores are appended for every handle and every profile is recomputed.
add_message_shared(handle, content) ==
    LET new_scores == analyze(content)
        known == handle \in DOMAIN profiles
        history(h) == (IF h \in DOMAIN _score_history THEN _score_history[h] ELSE <<>>)
                      \o <<new_scores>>
    IN  /\ _score_history' = [h \in DOMAIN _score_history \cup {handle} |-> history(h)]
        /\ profiles' = [h \in DOMAIN profiles \cup {handle} |->
                          _update_profile(IF h \in DOMAIN profiles THEN profiles[h]
                                          ELSE ParticipantProfile(h), history(h))]
        /\ profile_keys' = IF known THEN profile_keys ELSE Append(profile_keys, handle)

\* add_message(handle, content)
add_message(handle, content) ==
    LET new_scores == analyze(content)
        known == handle \in DOMAIN profiles
        profile == IF known THEN profiles[handle] ELSE ParticipantProfile(handle)
        history == (IF known THEN _score_history[handle] ELSE <<>>) \o <<new_scores>>
    IN  /\ _score_history' = [h \in DOMAIN _score_history \cup {handle} |->
                                IF h = handle THEN history ELSE _score_history[h]]
        /\ profiles' = [h \in DOMAIN profiles \cup {handle} |->
                          IF h = handle THEN _update_profile(profile, history)
                          ELSE profiles[h]]
        /\ profile_keys' = IF known THEN profile_keys ELSE Append(profile_keys, handle)

\* A mutant of get_profile: an unknown handle gets a fresh default profile.
get_profile_default(handle) ==
    IF handle \in DOMAIN profiles THEN profiles[handle] ELSE ParticipantProfile(handle)

\* get_profile(handle): the profile, or None.
get_profile(handle) == IF handle \in DOMAIN profiles THEN profiles[handle] ELSE None

\* A mutant of get_difficult_participants: the filter is missing.
get_difficult_participants_all == profile_keys

\* get_difficult_participants()
get_difficult_participants ==
    Filter(profile_keys, [h \in DOMAIN profiles |-> profiles[h].is_difficult])

\* The value of a natural number given by its digits.
RECURSIVE IntOfNat(_)
IntOfNat(a) == IF a = <<>> THEN 0 ELSE IntOfNat(SubSeq(a, 1, Len(a) - 1)) * Base + a[Len(a)]

\* round(x, 2) for a double 0 <= x < 2^52, in hundredths: x * 100 rounded to
\* the nearest integer, ties to even.
RoundFloat2(x) ==
    IF IsFloatZero(x) THEN 0
    ELSE LET a == NatMulAdd(x.sig, 100, 0)
             drop == (Precision - 1) - x.exp
             kept == IntOfNat(NatShiftRight(a, drop))
             rest == NatLowBits(a, drop)
             half == NatShiftLeft(<<1>>, drop - 1)
         IN  IF NatLess(half, rest) \/ (rest = half /\ kept % 2 = 1) THEN kept + 1 ELSE kept

\* ParticipantProfile.to_dict()
to_dict(profile) ==
    [handle |-> profile.handle,
     message_count |-> profile.message_count,
     scores |-> [drama |-> Round2(profile.avg_drama.num, profile.avg_drama.den),
                 neutrality |-> Round2(profile.avg_neutrality.num, profile.avg_neutrality.den),
                 politeness |-> Round2(profile.avg_politeness.num, profile.avg_politeness.den),
                 argument_quality |-> Round2(profile.avg_argument_quality.num,
                                             profile.avg_argument_quality.den),
                 subjectivity |-> Round2(profile.avg_subjectivity.num,
                                         profile.avg_subjectivity.den),
                 fallacy_rate |-> Round2(profile.avg_fallacy_rate.num,
                                         profile.avg_fallacy_rate.den),
                 face_threats |-> Round2(profile.avg_face_threats.num,
                                         profile.avg_face_threats.den)],
     speech_act_profile |-> [directive_rate |-> RoundFloat2(profile.directive_rate),
                             expressive_rate |-> RoundFloat2(profile.expressive_rate),
                             accusation_rate |-> RoundFloat2(profile.accusation_rate)],
     flags |-> [stonewalling_total |-> profile.total_stonewalling,
                is_difficult |-> profile.is_difficult]]

\* get_all_profiles()
get_all_profiles == [h \in DOMAIN profiles |-> to_dict(profiles[h])]

(***************************************************************************)
(* pattern_libraries.py.  A text is a string and a position i in 1 ..      *)
(* Len(t) + 1 stands before character i.  A regular expression is its      *)
(* syntax tree; a compiled pattern is the tree and its flags.  The matcher *)
(* follows the backtracking search of Python's re module: MatchEnds gives  *)
(* the positions where a match starting at i can end, in the order in      *)
(* which the search tries them, so its first element is the end of the     *)
(* match the search returns.                                               *)
(***************************************************************************)
Lowercase == "abcdefghijklmnopqrstuvwxyz"
Uppercase == "ABCDEFGHIJKLMNOPQRSTUVWXYZ"
Digits == "0123456789"

CharsOf(s) == {SubSeq(s, k, k) : k \in 1..Len(s)}

\* The character classes of the patterns: \w, \d, \s, \S, [a-f0-9], [\s\-].
Whitespace == {" ", "\t", "\n", "\r", "\f"}
WordChars == CharsOf(Lowercase) \cup CharsOf(Uppercase) \cup CharsOf(Digits) \cup {"_"}
InClass(c, class) ==
    CASE class = "w" -> c \in WordChars
      [] class = "d" -> c \in CharsOf(Digits)
      [] class = "s" -> c \in Whitespace
      [] class = "S" -> c \notin Whitespace
      [] class = "[a-f0-9]" -> c \in CharsOf("abcdef") \cup CharsOf(Digits)
      [] class = "[\\s\\-]" -> c \in Whitespace \cup {"-"}

\* str.lower() of one character and of a string.
LowerChar(c) ==
    IF c \in CharsOf(Uppercase)
    THEN LET k == CHOOSE k \in 1..Len(Uppercase) : SubSeq(Uppercase, k, k) = c
         IN  SubSeq(Lowercase, k, k)
    ELSE c

RECURSIVE Lower(_)
Lower(s) ==
    IF Len(s) = 0 THEN s
    ELSE IF Len(s) = 1 THEN LowerChar(s)
    ELSE LET h == Len(s) \div 2
         IN  Lower(SubSeq(s, 1, h)) \o Lower(SubSeq(s, h + 1, Len(s)))

\* The syntax of the regular expressions of the catalog.
Lit(s) == [op |-> "literal", s |-> s]                    \* re.escape(s), or plain characters
B == [op |-> "\\b"]                                       \* \b
LineStart == [op |-> "^"]                                 \* ^ under re.MULTILINE
LineEnd == [op |-> "$"]                                   \* $ under re.MULTILINE
Cat(q) == [op |-> "sequence", of |-> q]                   \* q[1] q[2] ...
Alt(q) == [op |-> "|", of |-> q]                          \* (q[1]|q[2]|...)
Opt(r) == [op |-> "?", of |-> r]                          \* r?
OneOf(class) == [op |-> "class", class |-> class]          \* one character of the class
Many(class, min) == [op |-> "{min,}", class |-> class, min |-> min]  \* class+, class*, class{min,}

\* re.compile(r, flags): under re.IGNORECASE the literals are folded to lower case.
RECURSIVE Fold(_)
Fold(r) ==
    CASE r.op = "literal" -> Lit(Lower(r.s))
      [] r.op \in {"sequence", "|"} -> [op |-> r.op, of |-> [k \in DOMAIN r.of |-> Fold(r.of[k])]]
      [] r.op = "?" -> Opt(Fold(r.of))
      [] OTHER -> r

Compile(r, flags) == [re |-> IF "I" \in flags THEN Fold(r) ELSE r, flags |-> flags]
\* re.compile(r'...', re.I)
Re(q) == Compile(Cat(q), {"I"})

\* compile_patterns(phrases, word_boundary)
compile_patterns(phrases, word_boundary) ==
    [k \in DOMAIN phrases |->
        IF word_boundary THEN Compile(Cat(<<B, Lit(phrases[k]), B>>), {"I"})
        ELSE Compile(Lit(phrases[k]), {"I"})]

\* Is character i of t a word character (no character is outside the text)?
IsWord(t, i) == i \in 1..Len(t) /\ SubSeq(t, i, i) \in WordChars

\* The number of characters of the class from position i on.
RECURSIVE Run(_, _, _)
Run(t, i, class) ==
    IF i <= Len(t) /\ InClass(SubSeq(t, i, i), class) THEN 1 + Run(t, i + 1, class) ELSE 0

\* <<hi, hi - 1, ..., lo>>
RECURSIVE Descending(_, _)
Descending(hi, lo) == IF hi < lo THEN <<>> ELSE <<hi>> \o Descending(hi - 1, lo)

RECURSIVE MatchEnds(_, _, _)
RECURSIVE EndsFromAll(_, _, _)
\* The ends of r from each of the starts, in order.
EndsFromAll(r, t, starts) ==
    IF starts = <<>> THEN <<>>
    ELSE MatchEnds(r, t, Head(starts)) \o EndsFromAll(r, t, Tail(starts))

RECURSIVE SeqEnds(_, _, _, _)
SeqEnds(q, k, t, starts) ==
    IF k > Len(q) \/ starts = <<>> THEN starts
    ELSE SeqEnds(q, k + 1, t, EndsFromAll(q[k], t, starts))

RECURSIVE AltEnds(_, _, _, _)
AltEnds(q, k, t, i) ==
    IF k > Len(q) THEN <<>>
    ELSE MatchEnds(q[k], t, i) \o AltEnds(q, k + 1, t, i)

MatchEnds(r, t, i) ==
    CASE r.op = "literal" ->
            IF i + Len(r.s) - 1 <= Len(t) /\ SubSeq(t, i, i + Len(r.s) - 1) = r.s
            THEN <<i + Len(r.s)>> ELSE <<>>
      [] r.op = "\\b" -> IF IsWord(t, i - 1) # IsWord(t, i) THEN <<i>> ELSE <<>>
      [] r.op = "^" -> IF i = 1 \/ SubSeq(t, i - 1, i - 1) = "\n" THEN <<i>> ELSE <<>>
      [] r.op = "$" -> IF i = Len(t) + 1 \/ SubSeq(t, i, i) = "\n" THEN <<i>> ELSE <<>>
      [] r.op = "sequence" -> SeqEnds(r.of, 1, t, <<i>>)
      [] r.op = "|" -> AltEnds(r.of, 1, t, i)
      [] r.op = "?" -> MatchEnds(r.of, t, i) \o <<i>>
      [] r.op = "class" ->
            IF i <= Len(t) /\ InClass(SubSeq(t, i, i), r.class) THEN <<i + 1>> ELSE <<>>
      [] r.op = "{min,}" -> Descending(i + Run(t, i, r.class), i + r.min)

\* A text as the searches read it: as it is, and folded to lower case for the
\* patterns compiled with re.IGNORECASE.
Subject(t) == [raw |-> t, folded |-> Lower(t)]

\* The matches that start at the positions lo..hi, each <<start, end>>, from
\* left to right.
RECURSIVE MatchesIn(_, _, _, _)
MatchesIn(r, s, lo, hi) ==
    IF lo > hi THEN <<>>
    ELSE IF lo = hi
    THEN LET ends == MatchEnds(r, s, lo)
         IN  IF ends = <<>> THEN <<>> ELSE <<<<lo, ends[1]>>>>
    ELSE LET mid == (lo + hi) \div 2
         IN  MatchesIn(r, s, lo, mid) \o MatchesIn(r, s, mid + 1, hi)

\* The matches a search from left to right returns: each search starts at
\* pos, where the match before it ended.
RECURSIVE Scan(_, _)
Scan(matches, pos) ==
    IF matches = <<>> THEN 0
    ELSE IF Head(matches)[1] < pos THEN Scan(Tail(matches), pos)
    ELSE 1 + Scan(Tail(matches), IF Head(matches)[2] = Head(matches)[1]
                                 THEN Head(matches)[1] + 1 ELSE Head(matches)[2])

\* A mutant of FindAll: re.IGNORECASE is ignored, the text is searched as it is.
FindAll_sensitive(pattern, subject) ==
    Scan(MatchesIn(pattern.re, subject.raw, 1, Len(subject.raw) + 1), 1)

\* len(pattern.findall(text))
FindAll(pattern, subject) ==
    LET s == IF "I" \in pattern.flags THEN subject.folded ELSE subject.raw
    IN  Scan(MatchesIn(pattern.re, s, 1, Len(s) + 1), 1)

\* sum(len(pattern.findall(text)) for pattern in patterns)
RECURSIVE CountMatches(_, _)
CountMatches(subject, patterns) ==
    IF patterns = <<>> THEN 0
    ELSE FindAll(Head(patterns), subject) + CountMatches(subject, Tail(patterns))

\* The catalog: the 20 pattern sets, each a list of compiled patterns.

\* Politeness theory.
POSITIVE_POLITENESS ==
    compile_patterns(<<
        "great point", "good point", "good idea", "nice work", "I agree", "you're right",
        "that's right", "exactly", "thanks for", "thank you for", "appreciate",
        "makes sense", "fair point", "fair enough", "well said", "good catch", "nice catch",
        "I like", "love this", "this is great"
    >>, TRUE)

HEDGES ==
    compile_patterns(<<
        "I think", "I believe", "I feel", "maybe", "perhaps", "possibly", "might",
        "could be", "may be", "I wonder", "I'm wondering", "not sure", "I'm not certain",
        "it seems", "it appears", "it looks like", "in my opinion", "from my perspective",
        "correct me if I'm wrong", "I could be wrong", "if I understand correctly"
    >>, TRUE)

FACE_THREATENING ==
    compile_patterns(<<
        "you're wrong", "you are wrong", "that's wrong", "that is wrong",
        "you don't understand", "you do not understand", "you're missing",
        "you are missing", "you failed to", "you forgot to", "you should have",
        "you should know", "you always", "you never", "obviously", "clearly you",
        "apparently you", "anyone can see", "everyone knows", "that's not how",
        "that is not how", "you need to", "you must", "you have to", "how can you",
        "why would you", "why didn't you"
    >>, TRUE)

INDIRECT_AGGRESSION ==
    compile_patterns(<<
        "with all due respect", "no offense but", "no offense,", "I'm just saying",
        "just saying", "interesting that you", "funny how you", "so you're saying",
        "let me get this straight", "if you had read", "if you actually read",
        "as I already said", "as I mentioned before", "I don't know how else to explain"
    >>, TRUE)

\* Speech acts.
DIRECTIVES == <<
    Re(<<B, Lit("you should"), B>>),
    Re(<<B, Lit("you need to"), B>>),
    Re(<<B, Lit("you must"), B>>),
    Re(<<B, Lit("you have to"), B>>),
    Re(<<B, Lit("please"), Many("s", 1), Alt(<<Lit("do"), Lit("stop"), Lit("consider"), Lit("read"), Lit("look")>>), B>>),
    Re(<<B, Lit("stop"), Many("s", 1), Many("w", 1), Lit("ing"), B>>),
    Re(<<B, Lit("don't"), Many("s", 1), Many("w", 1), B>>),
    Re(<<B, Lit("go"), Many("s", 1), Alt(<<Lit("read"), Lit("look"), Lit("check")>>), B>>)
    >>

EXPRESSIVES == <<
    Re(<<B, Lit("I"), Alt(<<Lit("'m"), Lit(" am")>>), Lit(" "),
         Alt(<<Lit("frustrated"), Lit("annoyed"), Lit("confused"), Lit("disappointed"), Lit("tired")>>), B>>),
    Re(<<B, Lit("this is "),
         Alt(<<Lit("ridiculous"), Lit("absurd"), Lit("insane"), Lit("crazy"), Lit("nonsense"), Lit("garbage")>>), B>>),
    Re(<<B, Lit("what a "), Alt(<<Lit("waste"), Lit("joke"), Lit("mess")>>), B>>),
    Re(<<B, Lit("unbelievable"), B>>),
    Re(<<B, Lit("frustrating"), B>>),
    Re(<<B, Lit("disappointing"), B>>)
    >>

ACCUSATIONS == <<
    Re(<<B, Lit("you "), Alt(<<Lit("broke"), Lit("ruined"), Lit("caused"), Lit("created"), Lit("introduced")>>), B>>),
    Re(<<B, Lit("this is your "), Alt(<<Lit("fault"), Lit("mistake"), Lit("problem")>>), B>>),
    Re(<<B, Lit("you're "), Alt(<<Lit("the one"), Lit("responsible"), Lit("to blame")>>), B>>),
    Re(<<B, Lit("because of you"), B>>),
    Re(<<B, Lit("you made this"), B>>)
    >>

CHALLENGES == <<
    Re(<<B, Lit("do you "), Alt(<<Lit("even"), Lit("actually"), Lit("really")>>), Lit(" "),
         Alt(<<Lit("understand"), Lit("know"), Lit("read")>>), B>>),
    Re(<<B, Lit("have you "), Alt(<<Lit("even"), Lit("actually"), Lit("ever")>>), Lit(" "),
         Alt(<<Lit("read"), Lit("looked"), Lit("tried"), Lit("used")>>), B>>),
    Re(<<B, Lit("do you understand"), B>>),
    Re(<<B, Lit("can you "), Alt(<<Lit("even"), Lit("actually")>>), B>>),
    Re(<<B, Lit("are you "), Alt(<<Lit("sure"), Lit("serious"), Lit("kidding")>>), B>>)
    >>

\* Argument quality.
EVIDENCE_MARKERS == <<
    Compile(Cat(<<Lit("http"), Opt(Lit("s")), Lit("://"), Many("S", 1)>>), {}),
    Re(<<B, Alt(<<Lit("BIP"), Lit("PR"), Lit("issue")>>), Opt(OneOf("[\\s\\-]")), Many("d", 1), B>>),
    Re(<<B, Lit("commit"), Many("s", 1), Many("[a-f0-9]", 6), B>>),
    Re(<<B, Opt(Alt(<<Lit("the "), Lit("my ")>>)),
         Alt(<<Lit("data"), Lit("benchmark"), Lit("test"), Lit("spec"), Lit("measurement")>>), Opt(Lit("s")),
         Many("s", 1), Alt(<<Lit("show"), Lit("indicate"), Lit("suggest")>>), B>>),
    Re(<<B, Lit("according to"), B>>),
    Re(<<B, Lit("in my "), Alt(<<Lit("testing"), Lit("experience"), Lit("analysis")>>), B>>),
    Re(<<B, Lit("measured"), B>>),
    Re(<<B, Many("d", 1), Opt(Cat(<<Lit("."), Many("d", 1)>>)), Many("s", 0),
         Alt(<<Lit("ms"), Lit("MB"), Lit("KB"), Lit("GB"), Lit("%"), Lit("x faster"), Lit("x slower")>>), B>>)
    >>

ACKNOWLEDGMENT ==
    compile_patterns(<<
        "you're right", "you are right", "that's true", "that is true", "fair point",
        "good point", "valid point", "I see your point", "I understand your point",
        "I agree with", "I concede", "you have a point", "that's a good question",
        "that's valid", "I hadn't considered", "I didn't think of", "you make a good point",
        "that's a fair criticism"
    >>, TRUE)

CONSTRUCTIVE ==
    compile_patterns(<<
        "what if we", "what about", "an alternative", "another option", "alternatively",
        "we could", "we might", "we should consider", "I suggest", "I propose",
        "I recommend", "how about", "perhaps we could", "one solution", "one approach",
        "one way", "I'd be happy to", "I can", "I will", "let me", "I'll submit",
        "I'll create", "I'll open"
    >>, TRUE)

DISMISSIVE ==
    compile_patterns(<<
        "that's wrong", "that is wrong", "wrong", "incorrect", "false", "no.", "nope",
        "nah", "doesn't matter", "irrelevant", "off-topic", "not worth", "waste of time",
        "pointless", "already addressed", "already discussed", "already answered",
        "you're missing the point", "that's not the issue", "I'm done", "I give up",
        "whatever"
    >>, TRUE)

\* Fallacies.
AD_HOMINEM == <<
    Re(<<B, Lit("you"), Alt(<<Lit("'re"), Lit(" are")>>), Lit(" "), Alt(<<Lit("just"), Lit("always"), Lit("never"), Lit("only")>>), B>>),
    Re(<<B, Lit("coming from you"), B>>),
    Re(<<B, Lit("of course you"), Alt(<<Lit("'d"), Lit(" would")>>), B>>),
    Re(<<B, Lit("typical of you"), B>>),
    Re(<<B, Lit("people like you"), B>>),
    Re(<<B, Lit("you"), Alt(<<Lit("'re"), Lit(" are")>>), Lit(" the "), Alt(<<Lit("kind"), Lit("type"), Lit("sort")>>), Lit(" of"), B>>)
    >>

STRAWMAN == <<
    Re(<<B, Lit("so you"), Alt(<<Lit("'re"), Lit(" are")>>), Lit(" saying"), B>>),
    Re(<<B, Lit("what you"), Alt(<<Lit("'re"), Lit(" are")>>), Lit(" really "),
         Alt(<<Lit("saying"), Lit("meaning"), Lit("suggesting")>>), B>>),
    Re(<<B, Lit("in other words"), Opt(Lit(",")), Many("s", 0), Lit("you"), B>>),
    Re(<<B, Lit("let me get this straight"), B>>),
    Re(<<B, Lit("so basically you"), B>>)
    >>

APPEAL_TO_AUTHORITY == <<
    Re(<<B, Many("d", 1), Many("s", 0),
         Alt(<<Cat(<<Lit("year"), Opt(Lit("s"))>>), Cat(<<Lit("yr"), Opt(Lit("s"))>>)>>),
         Many("s", 0), Alt(<<Lit("of experience"), Lit("experience"), Lit("in")>>), B>>),
    Re(<<B, Lit("I"), Alt(<<Lit("'ve"), Lit(" have")>>), Lit(" been "), Alt(<<Lit("doing"), Lit("working"), Lit("contributing")>>), B>>),
    Re(<<B, Lit("as a "), Alt(<<Lit("senior"), Lit("core"), Lit("experienced"), Lit("long-time")>>), B>>),
    Re(<<B, Lit("in my "), Many("d", 1), Lit(" years"), B>>),
    Re(<<B, Lit("I"), Alt(<<Lit("'ve"), Lit(" have")>>), Lit(" been here "), Alt(<<Lit("since"), Lit("longer")>>), B>>)
    >>

MOVING_GOALPOSTS == <<
    Re(<<B, Opt(Alt(<<Lit("but "), Cat(<<Lit("okay"), Opt(Lit(",")), Many("s", 0)>>)>>)),
         Lit("what about"), B>>),
    Re(<<B, Lit("that"), Alt(<<Lit("'s"), Lit(" is")>>), Lit(" not what I meant"), B>>),
    Re(<<B, Lit("I never said"), B>>),
    Re(<<B, Lit("you"), Alt(<<Lit("'re"), Lit(" are")>>), Lit(" missing the point"), B>>),
    Re(<<B, Lit("that"), Alt(<<Lit("'s"), Lit(" is")>>), Lit(" not the issue"), B>>)
    >>

WHATABOUTISM == <<
    Re(<<B, Lit("what about "), Alt(<<Lit("when"), Lit("the time")>>), B>>),
    Re(<<B, Lit("but "), Alt(<<Lit("you"), Lit("they"), Lit("he"), Lit("she")>>), Lit(" also"), B>>),
    Re(<<B, Lit("yeah but what about"), B>>),
    Re(<<B, Lit("what about your"), B>>)
    >>

\* Special patterns.
STONEWALLING ==
    compile_patterns(<<
        "no.", "nope.", "wrong.", "incorrect.", "already addressed", "already discussed",
        "already answered", "I'm done", "done discussing", "not going to",
        "this conversation is over", "I won't", "refuse to", "not worth my time",
        "waste of time", "I have nothing more to say", "said all I'm going to say"
    >>, TRUE)

THREATS ==
    compile_patterns(<<
        "I'll fork", "I will fork", "going to fork", "I'll leave", "I'm leaving", "I quit",
        "I'm done", "if this merges", "if you do this", "consider this my resignation",
        "count me out"
    >>, TRUE)

DISMISS_WITHOUT_ENGAGEMENT == <<
    Compile(Cat(<<LineStart, Alt(<<Lit("no"), Lit("wrong"), Lit("incorrect"), Lit("false"), Lit("nope")>>),
                  Opt(Lit(".")), LineEnd>>), {"I", "M"}),
    Compile(Cat(<<LineStart, Alt(<<Lit("nonsense"), Lit("garbage"), Lit("rubbish"), Lit("bs")>>),
                  Opt(Lit(".")), LineEnd>>), {"I", "M"}),
    Re(<<B, Lit("not even worth"), B>>)
    >>

\* The pattern set of each name.
PatternLibrary ==
    ("POSITIVE_POLITENESS" :> POSITIVE_POLITENESS)
    @@ ("HEDGES" :> HEDGES)
    @@ ("FACE_THREATENING" :> FACE_THREATENING)
    @@ ("INDIRECT_AGGRESSION" :> INDIRECT_AGGRESSION)
    @@ ("DIRECTIVES" :> DIRECTIVES)
    @@ ("EXPRESSIVES" :> EXPRESSIVES)
    @@ ("ACCUSATIONS" :> ACCUSATIONS)
    @@ ("CHALLENGES" :> CHALLENGES)
    @@ ("EVIDENCE_MARKERS" :> EVIDENCE_MARKERS)
    @@ ("ACKNOWLEDGMENT" :> ACKNOWLEDGMENT)
    @@ ("CONSTRUCTIVE" :> CONSTRUCTIVE)
    @@ ("DISMISSIVE" :> DISMISSIVE)
    @@ ("AD_HOMINEM" :> AD_HOMINEM)
    @@ ("STRAWMAN" :> STRAWMAN)
    @@ ("APPEAL_TO_AUTHORITY" :> APPEAL_TO_AUTHORITY)
    @@ ("MOVING_GOALPOSTS" :> MOVING_GOALPOSTS)
    @@ ("WHATABOUTISM" :> WHATABOUTISM)
    @@ ("STONEWALLING" :> STONEWALLING)
    @@ ("THREATS" :> THREATS)
    @@ ("DISMISS_WITHOUT_ENGAGEMENT" :> DISMISS_WITHOUT_ENGAGEMENT)

(***************************************************************************)
(* The texts the analyzer is applied to.                                   *)
(***************************************************************************)
ZeroCounts == [k \in PatternSets |-> 0]

Txt(len, compound, subjectivity, counts) ==
    [len |-> len, compound |-> compound, subjectivity |-> subjectivity,
     counts |-> counts @@ ZeroCounts]

\* A neutral statement without any pattern match.
PlainText == Txt(40, 0, 0, ZeroCounts)
\* A reply below 10 characters that still matches patterns ("No. Wrong.").
ShortText == Txt(9, -5000, 6000,
                 ("DISMISSIVE" :> 2) @@ ("STONEWALLING" :> 2)
                 @@ ("DISMISS_WITHOUT_ENGAGEMENT" :> 1) @@ ("FACE_THREATENING" :> 1))
\* An attack: every drama term at its maximum.
ToxicText == Txt(200, -10000, 10000,
                 ("FACE_THREATENING" :> 3) @@ ("INDIRECT_AGGRESSION" :> 2)
                 @@ ("DISMISSIVE" :> 3) @@ ("AD_HOMINEM" :> 2) @@ ("STRAWMAN" :> 2)
                 @@ ("ACCUSATIONS" :> 4) @@ ("STONEWALLING" :> 1)
                 @@ ("DISMISS_WITHOUT_ENGAGEMENT" :> 1))
\* A sharp but argued disagreement.
HeatedText == Txt(160, -8000, 4567,
                  ("FACE_THREATENING" :> 2) @@ ("CHALLENGES" :> 2) @@ ("EXPRESSIVES" :> 2)
                  @@ ("AD_HOMINEM" :> 1) @@ ("EVIDENCE_MARKERS" :> 2)
                  @@ ("ACKNOWLEDGMENT" :> 1) @@ ("HEDGES" :> 1)
                  @@ ("POSITIVE_POLITENESS" :> 1))
\* A friendly, evidence-backed proposal.
ProductiveText == Txt(140, 7717, 2505,
                      ("POSITIVE_POLITENESS" :> 1) @@ ("ACKNOWLEDGMENT" :> 1)
                      @@ ("CONSTRUCTIVE" :> 2) @@ ("EVIDENCE_MARKERS" :> 1))
\* A rant: high drama and low neutrality without accusation or stonewalling.
RantText == Txt(120, -10000, 10000,
                ("FACE_THREATENING" :> 3) @@ ("DISMISSIVE" :> 3) @@ ("AD_HOMINEM" :> 2)
                @@ ("CHALLENGES" :> 1) @@ ("EXPRESSIVES" :> 1))
\* An outburst: seven expressives, one accusation, one directive and two
\* refusals to engage.
OutburstText == Txt(90, -5000, 8000,
                    ("EXPRESSIVES" :> 7) @@ ("ACCUSATIONS" :> 1) @@ ("DIRECTIVES" :> 1)
                    @@ ("STONEWALLING" :> 2))
\* A curt brush-off.
CurtText == Txt(30, -2960, 9000,
                ("DISMISSIVE" :> 2) @@ ("STONEWALLING" :> 1) @@ ("DIRECTIVES" :> 1))

\* Two replies on the border of "toxic": drama 6.0 and neutrality 4.2, and,
\* a little less subjective, drama 5.99 and neutrality 4.23.
BorderText == Txt(60, 1000, 5000,
                  ("FACE_THREATENING" :> 2) @@ ("DISMISSIVE" :> 1) @@ ("STONEWALLING" :> 1))
NearBorderText == Txt(60, 1000, 4900,
                      ("FACE_THREATENING" :> 2) @@ ("DISMISSIVE" :> 1) @@ ("STONEWALLING" :> 1))

Bases == {PlainText, ShortText, ToxicText, HeatedText, ProductiveText, CurtText}

CompoundSamples == {-10000, -6249, -10, 0, 3333, 9990, 10000}
SubjectivitySamples == {0, 5, 1234, 5000, 9995, 10000}
LenSamples == {0, 1, 9, 10, 11, 500}
\* The groups of pattern sets swept together; the five fallacy sets, which the
\* analyzer only sums, are swept in two parts.
Groups == {PolitenessSets, SpeechActSets, QualitySets, SpecialSets,
           {"AD_HOMINEM", "STRAWMAN", "APPEAL_TO_AUTHORITY"},
           {"MOVING_GOALPOSTS", "WHATABOUTISM"}}

SweepCounts(b, g) ==
    {[b EXCEPT !.counts = [k \in PatternSets |-> IF k \in g THEN f[k] ELSE b.counts[k]]] :
        f \in [g -> 0..MaxCount]}
SweepSentiment(b) ==
    {[b EXCEPT !.compound = c, !.subjectivity = s] :
        c \in CompoundSamples, s \in SubjectivitySamples}
SweepLength(b) == {[b EXCEPT !.len = n] : n \in LenSamples}

\* Every base text, with one group of inputs at a time taking all its values.
Texts ==
    UNION {SweepCounts(b, g) : b \in Bases, g \in Groups}
    \cup UNION {SweepSentiment(b) : b \in Bases}
    \cup UNION {SweepLength(b) : b \in Bases}

(***************************************************************************)
(* Texts given by their characters: what the analyzer reads from the       *)
(* string t when VADER returns compound for it and TextBlob subjectivity.  *)
(***************************************************************************)
\* The number of characters of the class from position i back.
RECURSIVE RunBack(_, _, _)
RunBack(t, i, class) ==
    IF i >= 1 /\ InClass(SubSeq(t, i, i), class) THEN 1 + RunBack(t, i - 1, class) ELSE 0

\* len(text.strip())
StripLen(t) ==
    LET leading == Run(t, 1, "s")
    IN  IF leading = Len(t) THEN 0 ELSE Len(t) - leading - RunBack(t, Len(t), "s")

Read(t, compound, subjectivity) ==
    LET subject == Subject(t)
    IN  [raw |-> t, len |-> StripLen(t), compound |-> compound, subjectivity |-> subjectivity,
         counts |-> [k \in PatternSets |-> CountMatches(subject, PatternLibrary[k])]]

\* The two end-to-end scenarios.
StonewallText == "No. Already discussed. Not going to repeat myself. Waste of time."
ProposalText == "I see your point about the performance implications. What if we tried caching the intermediate results? I can submit a proof of concept."
ScenarioTexts == {StonewallText, ProposalText}

(***************************************************************************)
(* The analyzer applied to one text.                                       *)
(***************************************************************************)
NoThread == [health |-> "none"]
NoProfiles == [h \in {} |-> 0]
NoCalls == <<>>

Init ==
    /\ text \in Texts
    /\ scores = DimensionalScores
    /\ prev = DimensionalScores
    /\ pc = "idle"
    /\ memo = [t \in {} |-> 0]
    /\ messages = <<>>
    /\ thread = NoThread
    /\ profiles = NoProfiles
    /\ profile_keys = <<>>
    /\ _score_history = NoProfiles
    /\ calls = NoCalls

\* scores = analyzer.analyze(text)
Analyze ==
    /\ pc = "idle"
    /\ scores' = analyze(text)
    /\ prev' = scores
    /\ pc' = "done"
    /\ UNCHANGED <<text, memo, messages, thread, profiles, profile_keys, _score_history, calls>>

\* The caller analyses the same text with one more occurrence of a
\* face-threatening phrase in it (the shortest phrase and a blank: 9 characters).
AnalyzeWithOneMoreFaceThreat ==
    /\ pc = "done"
    /\ text.counts["FACE_THREATENING"] <= MaxCount
    /\ text' = [text EXCEPT !.len = @ + 9, !.counts["FACE_THREATENING"] = @ + 1]
    /\ scores' = analyze(text')
    /\ prev' = scores
    /\ UNCHANGED <<pc, memo, messages, thread, profiles, profile_keys, _score_history, calls>>

Next == Analyze \/ AnalyzeWithOneMoreFaceThreat

Spec == Init /\ [][Next]_vars

(***************************************************************************)
(* The thread aggregator applied to a growing thread: the caller analyses  *)
(* the message list again after every message that arrives.                *)
(***************************************************************************)
\* The author handles, in the order in which new authors join a thread.
Handles == <<"achow", "sipa", "luke", "roasbeef", "ajtowns", "instagibbs", "unknown", "jonasn">>
\* The texts of thread messages, hottest first: drama 10, 5.65 and 2.5.
ThreadTexts == <<ToxicText, CurtText, PlainText>>

\* The texts a new message may have.  A thread is built hottest message first:
\* every multiset of texts with every assignment of authors to them occurs,
\* in one order of arrival.
NextTexts(msgs) ==
    {ThreadTexts[k] : k \in {j \in 1..Len(ThreadTexts) :
        msgs = <<>> \/ \E l \in 1..j : ThreadTexts[l] = msgs[Len(msgs)].content}}

AuthorsOf(msgs) == {Get(msgs[i], "author", "unknown") : i \in 1..Len(msgs)}

\* The authors a new message may have: one already in the thread, or the
\* next handle that has not posted yet.
NextAuthors(msgs) ==
    {Handles[i] : i \in 1..Min(Len(Handles), Cardinality(AuthorsOf(msgs)) + 1)}

InitThread ==
    /\ text = EmptyText
    /\ scores = DimensionalScores
    /\ prev = DimensionalScores
    /\ pc = "idle"
    /\ memo = [t \in {} |-> 0]
    /\ messages = <<>>
    /\ thread = NoThread
    /\ profiles = NoProfiles
    /\ profile_keys = <<>>
    /\ _score_history = NoProfiles
    /\ calls = NoCalls

\* thread = analyzer.analyze_thread(messages), before any message arrived.
AnalyzeEmptyThread ==
    /\ thread = NoThread
    /\ thread' = analyze_thread(messages)
    /\ UNCHANGED <<text, scores, pc, prev, memo, messages, profiles, profile_keys, _score_history, calls>>

\* A message arrives and the caller analyses the whole thread again.
ReceiveAndAnalyzeThread ==
    /\ Len(messages) < MaxThread
    /\ \E a \in NextAuthors(messages), c \in NextTexts(messages) :
          \E msgs \in {Append(messages, [author |-> a, content |-> c])} :
             /\ messages' = msgs
             /\ thread' = analyze_thread(msgs)
    /\ UNCHANGED <<text, scores, pc, prev, memo, profiles, profile_keys, _score_history, calls>>

NextThread == AnalyzeEmptyThread \/ ReceiveAndAnalyzeThread

SpecThread == InitThread /\ [][NextThread]_vars

(***************************************************************************)
(* The thread aggregator applied to message records as a scraper may       *)
(* deliver them: a field may be absent from the record, or null.           *)
(***************************************************************************)
\* Largest number of records in such a thread.
MaxRecords == 2

RecordAuthors == {"sipa", "unknown", NoneKey}
RecordContents == {ToxicText, ShortText, None}

\* The records: both fields present, or one of the two absent.
Records ==
    {[author |-> a, content |-> c] : a \in RecordAuthors, c \in RecordContents}
    \cup {[content |-> c] : c \in RecordContents}
    \cup {[author |-> a] : a \in RecordAuthors}

InitRecords == InitThread

\* A record arrives and the caller analyses the whole thread again.
ReceiveRecordAndAnalyzeThread ==
    /\ Len(messages) < MaxRecords
    /\ \E msg \in Records :
          \E msgs \in {Append(messages, msg)} :
             /\ messages' = msgs
             /\ thread' = analyze_thread(msgs)
    /\ UNCHANGED <<text, scores, pc, prev, memo, profiles, profile_keys, _score_history, calls>>

NextRecords == ReceiveRecordAndAnalyzeThread

SpecRecords == InitRecords /\ [][NextRecords]_vars

(***************************************************************************)
(* A session: one analyzer and one profiler built on it, used for          *)
(* analyze, analyze_thread and add_message calls in any order.             *)
(***************************************************************************)
\* Largest number of messages handed to the thread aggregator and the
\* profiler together in a session.
MaxCalls == 3

SessionTexts == {CurtText, ShortText}
SessionHandles == {"achow", "sipa"}

RECURSIVE TotalLen(_, _)
TotalLen(f, keys) ==
    IF keys = <<>> THEN 0 ELSE Len(f[Head(keys)]) + TotalLen(f, Tail(keys))

CallsMade == Len(messages) + TotalLen(_score_history, profile_keys)

InitSession == InitThread

\* scores = analyzer.analyze(t)
SessionAnalyze ==
    \E t \in SessionTexts :
        \E result \in {analyze(t)} :
            /\ text' = t
            /\ scores' = result
            /\ prev' = scores
            /\ pc' = "done"
            /\ memo' = IF t \in DOMAIN memo THEN memo
                       ELSE [u \in DOMAIN memo \cup {t} |-> IF u = t THEN result ELSE memo[u]]
            /\ UNCHANGED <<messages, thread, profiles, profile_keys, _score_history, calls>>

\* thread = analyzer.analyze_thread(messages) on a thread with one more message.
SessionAnalyzeThread ==
    /\ CallsMade < MaxCalls
    /\ \E a \in SessionHandles, c \in SessionTexts :
          \E msgs \in {Append(messages, [author |-> a, content |-> c])} :
             /\ messages' = msgs
             /\ thread' = analyze_thread(msgs)
    /\ UNCHANGED <<text, scores, pc, prev, memo, profiles, profile_keys, _score_history, calls>>

\* profiler.add_message(h, c)
SessionAddMessage ==
    /\ CallsMade < MaxCalls
    /\ \E h \in SessionHandles, c \in SessionTexts : add_message(h, c)
    /\ UNCHANGED <<text, scores, pc, prev, memo, messages, thread, calls>>

NextSession == SessionAnalyze \/ SessionAnalyzeThread \/ SessionAddMessage

SpecSession == InitSession /\ [][NextSession]_vars

(***************************************************************************)
(* The profiler fed a stream of messages: the caller hands every message   *)
(* that arrives to add_message.  messages is the stream fed so far.        *)
(***************************************************************************)
\* Largest number of messages fed to the profiler.
MaxFeed == 3

ProfilerHandles == {"sipa", "achow"}
\* Accusations and stonewalling; a directive and stonewalling; a challenge
\* and an expressive; nine speech acts without a challenge; no speech act at
\* all (too short to be scored).
ProfilerTexts == {ToxicText, CurtText, RantText, OutburstText, ShortText}

InitProfiler == InitThread

\* profiler.add_message(msg['author'], msg['content']) for the next message.
FeedMessage ==
    /\ Len(messages) < MaxFeed
    /\ \E h \in ProfilerHandles, c \in ProfilerTexts :
          /\ add_message(h, c)
          /\ messages' = Append(messages, [author |-> h, content |-> c])
    /\ UNCHANGED <<text, scores, pc, prev, memo, thread, calls>>

NextProfiler == FeedMessage

SpecProfiler == InitProfiler /\ [][NextProfiler]_vars

(***************************************************************************)
(* Concurrent callers of one profiler, each feeding the messages of a      *)
(* handle of its own.  A caller runs add_message statement by statement;   *)
(* the statements of different callers interleave in any order.  calls[t]  *)
(* is the frame of caller t: where it is in add_message (pc), the          *)
(* arguments handle and content, the locals scores and n, and the contents *)
(* it has posted so far.  raced records that a statement of the call ran   *)
(* while another caller was inside add_message.                            *)
(***************************************************************************)
\* Largest number of add_message calls of one caller.
MaxPosts == 2

Callers == {1, 2}
CallerHandle == <<"sipa", "achow">>
ConcurrentTexts == {ToxicText, CurtText}

InitConcurrent ==
    /\ text = EmptyText
    /\ scores = DimensionalScores
    /\ prev = DimensionalScores
    /\ pc = "idle"
    /\ memo = [t \in {} |-> 0]
    /\ messages = <<>>
    /\ thread = NoThread
    /\ profiles = NoProfiles
    /\ profile_keys = <<>>
    /\ _score_history = NoProfiles
    /\ calls = [t \in Callers |->
                  [pc |-> "idle", handle |-> CallerHandle[t], content |-> EmptyText,
                   scores |-> DimensionalScores, n |-> 0, posted |-> <<>>, raced |-> FALSE]]

\* Another caller is inside add_message.
OthersBusy(t) == \E u \in Callers \ {t} : calls[u].pc # "idle"

\* Caller t moves to label with the frame fields changed as given.
Goto(t, label, frame) ==
    calls' = [calls EXCEPT ![t] = [frame EXCEPT !.pc = label,
                                                !.raced = @ \/ OthersBusy(t)]]

\* dict[key] = value
SetItem(dict, key, value) ==
    [k \in DOMAIN dict \cup {key} |-> IF k = key THEN value ELSE dict[k]]

\* Line 403: scores = self.analyzer.analyze(content), at the start of a call.
CallAddMessage(t) ==
    /\ calls[t].pc = "idle"
    /\ Len(calls[t].posted) < MaxPosts
    /\ \E c \in ConcurrentTexts :
          \E result \in {analyze(c)} :
             /\ scores' = result
             /\ Goto(t, "check", [calls[t] EXCEPT !.content = c, !.scores = result,
                                                  !.posted = Append(@, c)])
    /\ UNCHANGED <<text, pc, prev, memo, messages, thread, profiles, profile_keys,
                   _score_history>>

\* Line 405: if handle not in self.profiles
CheckHandle(t) ==
    /\ calls[t].pc = "check"
    /\ Goto(t, IF calls[t].handle \in DOMAIN profiles THEN "append" ELSE "create_profile",
            calls[t])
    /\ UNCHANGED <<text, scores, pc, prev, memo, messages, thread, profiles, profile_keys,
                   _score_history>>

\* Line 406: self.profiles[handle] = ParticipantProfile(handle=handle)
CreateProfile(t) ==
    /\ calls[t].pc = "create_profile"
    /\ profiles' = SetItem(profiles, calls[t].handle, ParticipantProfile(calls[t].handle))
    /\ profile_keys' = IF calls[t].handle \in DOMAIN profiles THEN profile_keys
                       ELSE Append(profile_keys, calls[t].handle)
    /\ Goto(t, "create_history", calls[t])
    /\ UNCHANGED <<text, scores, pc, prev, memo, messages, thread, _score_history>>

\* Line 407: self._score_history[handle] = []
CreateHistory(t) ==
    /\ calls[t].pc = "create_history"
    /\ _score_history' = SetItem(_score_history, calls[t].handle, <<>>)
    /\ Goto(t, "append", calls[t])
    /\ UNCHANGED <<text, scores, pc, prev, memo, messages, thread, profiles, profile_keys>>

\* A mutant of ScoresToAppend: the result of analyze is kept in an attribute
\* the callers share, not in a local.
ScoresToAppend_shared(t) == scores

\* The local scores of the call of caller t.
ScoresToAppend(t) == calls[t].scores

\* Line 409: self._score_history[handle].append(scores)
\* The lookup raises KeyError while the handle has no history yet, and the
\* call ends there.
AppendScores(t) ==
    /\ calls[t].pc = "append"
    /\ IF calls[t].handle \in DOMAIN _score_history
       THEN /\ _score_history' = [_score_history EXCEPT
                                     ![calls[t].handle] = Append(@, ScoresToAppend(t))]
            /\ Goto(t, "count", calls[t])
       ELSE /\ UNCHANGED _score_history
            /\ Goto(t, "KeyError", calls[t])
    /\ UNCHANGED <<text, scores, pc, prev, memo, messages, thread, profiles, profile_keys>>

\* Lines 414-421: n = len(history); profile.message_count = n; return if n == 0.
CountMessages(t) ==
    /\ calls[t].pc = "count"
    /\ \E n \in {Len(_score_history[calls[t].handle])} :
          /\ profiles' = [profiles EXCEPT ![calls[t].handle].message_count = n]
          /\ Goto(t, IF n = 0 THEN "idle" ELSE "averages", [calls[t] EXCEPT !.n = n])
    /\ UNCHANGED <<text, scores, pc, prev, memo, messages, thread, profile_keys, _score_history>>

\* Lines 424-430: the seven means, over the history as it is now and the n
\* read before.
StoreAverages(t) ==
    /\ calls[t].pc = "averages"
    /\ \E history \in {_score_history[calls[t].handle]} :
          profiles' = [profiles EXCEPT ![calls[t].handle] =
             [@ EXCEPT !.avg_drama = Mean(FieldSum(history, "drama_score"), calls[t].n),
                       !.avg_neutrality = Mean(FieldSum(history, "neutrality_score"), calls[t].n),
                       !.avg_politeness = Mean(FieldSum(history, "politeness"), calls[t].n),
                       !.avg_argument_quality =
                            Mean(FieldSum(history, "argument_quality"), calls[t].n),
                       !.avg_subjectivity = Mean(FieldSum(history, "subjectivity"), calls[t].n),
                       !.avg_fallacy_rate = Mean(FieldSum(history, "fallacy_score"), calls[t].n),
                       !.avg_face_threats = Mean(FieldSum(history, "face_threats"), calls[t].n)]]
    /\ Goto(t, "rates", calls[t])
    /\ UNCHANGED <<text, scores, pc, prev, memo, messages, thread, profile_keys, _score_history>>

\* Lines 433-440: total_speech_acts and the three rates.
StoreRates(t) ==
    /\ calls[t].pc = "rates"
    /\ \E history \in {_score_history[calls[t].handle]} :
          \E total_speech_acts \in {TotalSpeechActs(history)} :
             profiles' = [profiles EXCEPT ![calls[t].handle] =
                [@ EXCEPT !.directive_rate =
                              Rate(FieldSum(history, "directive_count"), total_speech_acts),
                          !.expressive_rate =
                              Rate(FieldSum(history, "expressive_count"), total_speech_acts),
                          !.accusation_rate =
                              Rate(FieldSum(history, "accusation_count"), total_speech_acts)]]
    /\ Goto(t, "flags", calls[t])
    /\ UNCHANGED <<text, scores, pc, prev, memo, messages, thread, profile_keys, _score_history>>

\* Lines 443-450: total_stonewalling, and is_difficult from the fields of
\* the profile; the call returns.
StoreFlags(t) ==
    /\ calls[t].pc = "flags"
    /\ \E total \in {FieldSum(_score_history[calls[t].handle], "stonewalling_indicators")},
          profile \in {profiles[calls[t].handle]} :
          profiles' = [profiles EXCEPT ![calls[t].handle] =
             [profile EXCEPT !.total_stonewalling = total,
                             !.is_difficult =
                                 IsDifficultProfile(total, profile.avg_drama,
                                                    profile.avg_neutrality,
                                                    profile.accusation_rate)]]
    /\ Goto(t, "idle", calls[t])
    /\ UNCHANGED <<text, scores, pc, prev, memo, messages, thread, profile_keys, _score_history>>

NextConcurrent ==
    \E t \in Callers :
        \/ CallAddMessage(t)
        \/ CheckHandle(t)
        \/ CreateProfile(t)
        \/ CreateHistory(t)
        \/ AppendScores(t)
        \/ CountMessages(t)
        \/ StoreAverages(t)
        \/ StoreRates(t)
        \/ StoreFlags(t)

SpecConcurrent == InitConcurrent /\ [][NextConcurrent]_vars

(***************************************************************************)
(* Concurrent callers of one profiler feeding messages of one and the same *)
(* handle, without serialization.  The statements of add_message           *)
(* interleave in any order: the membership test, the creation of the       *)
(* profile, the creation of the history, the append, and _update_profile.  *)
(***************************************************************************)
SharedHandle == "sipa"

InitSameHandle ==
    /\ text = EmptyText
    /\ scores = DimensionalScores
    /\ prev = DimensionalScores
    /\ pc = "idle"
    /\ memo = [t \in {} |-> 0]
    /\ messages = <<>>
    /\ thread = NoThread
    /\ profiles = NoProfiles
    /\ profile_keys = <<>>
    /\ _score_history = NoProfiles
    /\ calls = [t \in Callers |->
                  [pc |-> "idle", handle |-> SharedHandle, content |-> EmptyText,
                   scores |-> DimensionalScores, n |-> 0, posted |-> <<>>, raced |-> FALSE]]

\* A mutant of UpdateProfile: the recompute is skipped when another
\* caller is inside add_message.
UpdateProfile_skip(t) ==
    /\ calls[t].pc = "count"
    /\ profiles' = IF OthersBusy(t) THEN profiles
                   ELSE [profiles EXCEPT ![calls[t].handle] =
                            _update_profile(@, _score_history[calls[t].handle])]
    /\ Goto(t, "idle", calls[t])
    /\ UNCHANGED <<text, scores, pc, prev, memo, messages, thread, profile_keys, _score_history>>

\* Line 410: self._update_profile(handle), and the call returns.
UpdateProfile(t) ==
    /\ calls[t].pc = "count"
    /\ profiles' = [profiles EXCEPT ![calls[t].handle] =
                       _update_profile(@, _score_history[calls[t].handle])]
    /\ Goto(t, "idle", calls[t])
    /\ UNCHANGED <<text, scores, pc, prev, memo, messages, thread, profile_keys, _score_history>>

NextSameHandle ==
    \E t \in Callers :
        \/ CallAddMessage(t)
        \/ CheckHandle(t)
        \/ CreateProfile(t)
        \/ CreateHistory(t)
        \/ AppendScores(t)
        \/ UpdateProfile(t)

SpecSameHandle == InitSameHandle /\ [][NextSameHandle]_vars

(***************************************************************************)
(* The analyzer applied to the end-to-end scenarios, the sentiment and     *)
(* subjectivity scorers returning any of the sampled values.               *)
(***************************************************************************)
InitScenario ==
    /\ text \in {[r EXCEPT !.compound = c, !.subjectivity = s] :
                    r \in {Read(t, 0, 0) : t \in ScenarioTexts},
                    c \in CompoundSamples, s \in SubjectivitySamples}
    /\ scores = DimensionalScores
    /\ prev = DimensionalScores
    /\ pc = "idle"
    /\ memo = [t \in {} |-> 0]
    /\ messages = <<>>
    /\ thread = NoThread
    /\ profiles = NoProfiles
    /\ profile_keys = <<>>
    /\ _score_history = NoProfiles
    /\ calls = NoCalls

NextScenario == Analyze

SpecScenario == InitScenario /\ [][NextScenario]_vars

(***************************************************************************)
(* The analyzer applied to texts written phrase by phrase: the caller      *)
(* joins up to MaxTokens of the tokens with blanks and analyses the text.  *)
(***************************************************************************)
MaxTokens == 3

Tokens == {"that's wrong", "No.", "nope.", "backup", "I cannot", "no offense,"}

InitPhrases ==
    /\ text = Read("", 0, 0)
    /\ scores = DimensionalScores
    /\ prev = DimensionalScores
    /\ pc = "idle"
    /\ memo = [t \in {} |-> 0]
    /\ messages = <<>>
    /\ thread = NoThread
    /\ profiles = NoProfiles
    /\ profile_keys = <<>>
    /\ _score_history = NoProfiles
    /\ calls = NoCalls

\* The caller writes one more token; messages holds the tokens written.
WriteToken ==
    /\ pc = "idle"
    /\ Len(messages) < MaxTokens
    /\ \E token \in Tokens :
        /\ messages' = Append(messages, token)
        /\ text' = Read(IF text.raw = "" THEN token ELSE text.raw \o " " \o token, 0, 0)
    /\ UNCHANGED <<scores, pc, prev, memo, thread, profiles, profile_keys, _score_history, calls>>

NextPhrases == WriteToken \/ Analyze

SpecPhrases == InitPhrases /\ [][NextPhrases]_vars

(***************************************************************************)
(* One analyzer and one profiler used by a caller who makes every call of  *)
(* their interfaces in any order: messages is the log of the add_message   *)
(* calls and the message list handed to analyze_thread; scores, thread and *)
(* prev hold what analyze, analyze_thread and the last query returned.     *)
(***************************************************************************)
FrameTexts == {ToxicText, CurtText}

InitFrame == InitThread

\* profiler.add_message(h, c)
FrameAddMessage ==
    /\ Len(messages) < MaxFeed
    /\ \E h \in ProfilerHandles, c \in FrameTexts :
          /\ add_message(h, c)
          /\ messages' = Append(messages, [author |-> h, content |-> c])
    /\ UNCHANGED <<text, scores, pc, prev, memo, thread, calls>>

\* scores = analyzer.analyze(c)
FrameAnalyze ==
    /\ \E c \in FrameTexts :
          /\ text' = c
          /\ scores' = analyze(c)
    /\ UNCHANGED <<pc, prev, memo, messages, thread, profiles, profile_keys, _score_history,
                   calls>>

\* thread = analyzer.analyze_thread(messages)
FrameAnalyzeThread ==
    /\ thread' = analyze_thread(messages)
    /\ UNCHANGED <<text, scores, pc, prev, memo, messages, profiles, profile_keys,
                   _score_history, calls>>

\* prev = profiler.get_profile(h)
GetProfile ==
    /\ \E h \in ProfilerHandles : prev' = [query |-> "get_profile", returned |-> get_profile(h)]
    /\ UNCHANGED <<text, scores, pc, memo, messages, thread, profiles, profile_keys,
                   _score_history, calls>>

\* prev = profiler.get_all_profiles()
GetAllProfiles ==
    /\ prev' = [query |-> "get_all_profiles", returned |-> get_all_profiles]
    /\ UNCHANGED <<text, scores, pc, memo, messages, thread, profiles, profile_keys,
                   _score_history, calls>>

\* prev = profiler.get_difficult_participants()
GetDifficultParticipants ==
    /\ prev' = [query |-> "get_difficult_participants",
                returned |-> get_difficult_participants]
    /\ UNCHANGED <<text, scores, pc, memo, messages, thread, profiles, profile_keys,
                   _score_history, calls>>

NextFrame ==
    \/ FrameAddMessage
    \/ FrameAnalyze
    \/ FrameAnalyzeThread
    \/ GetProfile
    \/ GetAllProfiles
    \/ GetDifficultParticipants

SpecFrame == InitFrame /\ [][NextFrame]_vars

(***************************************************************************)
(* The thread aggregator applied to a growing thread of replies whose      *)
(* scores lie next to a threshold of the health classification.            *)
(***************************************************************************)
BorderTexts == <<BorderText, NearBorderText>>
BorderHandles == <<"achow", "sipa">>

InitBorder == InitThread

\* A reply arrives and the caller analyses the whole thread again.  The
\* replies on the border arrive first, and the second handle posts only
\* after the first.
ReceiveReplyAndAnalyzeThread ==
    /\ Len(messages) < MaxThread
    /\ \E a \in {BorderHandles[i] : i \in 1..Min(2, Cardinality(AuthorsOf(messages)) + 1)},
          c \in {BorderTexts[k] : k \in {j \in 1..2 :
                    messages = <<>> \/ \E l \in 1..j :
                        BorderTexts[l] = messages[Len(messages)].content}} :
          \E msgs \in {Append(messages, [author |-> a, content |-> c])} :
             /\ messages' = msgs
             /\ thread' = analyze_thread(msgs)
    /\ UNCHANGED <<text, scores, pc, prev, memo, profiles, profile_keys, _score_history, calls>>

NextBorder == ReceiveReplyAndAnalyzeThread

SpecBorder == InitBorder /\ [][NextBorder]_vars

(***************************************************************************)
(* A stream of messages of which some are too short to be scored.  The     *)
(* caller hands every message that arrives to the profiler and analyses    *)
(* the thread so far again; messages is the thread.                        *)
(***************************************************************************)
\* A terse reply: blanks around three characters, less than 10 once trimmed.
TerseText == Read("   No.    ", -2960, 0)
DegenerateTexts == {ShortText, TerseText, CurtText}
DegenerateHandles == {"sipa", "achow"}

InitDegenerate == InitThread

\* profiler.add_message(msg['author'], msg['content']) for the message that
\* arrives, then thread = analyzer.analyze_thread(messages).
ReceiveAndRecord ==
    /\ Len(messages) < MaxFeed
    /\ \E h \in DegenerateHandles, c \in DegenerateTexts :
          \E msgs \in {Append(messages, [author |-> h, content |-> c])} :
             /\ add_message(h, c)
             /\ messages' = msgs
             /\ thread' = analyze_thread(msgs)
    /\ UNCHANGED <<text, scores, pc, prev, memo, calls>>

NextDegenerate == ReceiveAndRecord

SpecDegenerate == InitDegenerate /\ [][NextDegenerate]_vars

(***************************************************************************)
(* The health classification applied to pairs of scores on and next to     *)
(* its thresholds: the if/elif chain of _calculate_composite_scores on     *)
(* the scores of a message, then _assess_thread_health on a pair of means  *)
(* at those scores or half a hundredth below.                              *)
(***************************************************************************)
\* The scores lie within Margin hundredths of 0, 4, 5, 6 and 10.
Margin == 2
BorderScores ==
    {x \in 0..1000 : \E c \in {0, 400, 500, 600, 1000} : x - c \in -Margin..Margin}

\* The condition of the explicit branch that assigns label, on (drama, neutrality).
BranchHolds(label, drama, neutrality) ==
    CASE label = "toxic" -> Ge(drama, 600) /\ Lt(neutrality, 500)
      [] label = "heated-but-fair" -> Ge(drama, 500) /\ Ge(neutrality, 500)
      [] label = "productive" -> Lt(drama, 400) /\ Ge(neutrality, 600)
      [] label = "dismissive" -> Lt(drama, 400) /\ Lt(neutrality, 500)

InitHealth ==
    /\ text = EmptyText
    /\ scores \in {[DimensionalScores EXCEPT !.drama_score = d, !.neutrality_score = n] :
                      d \in BorderScores, n \in BorderScores}
    /\ prev = DimensionalScores
    /\ pc = "idle"
    /\ memo = [t \in {} |-> 0]
    /\ messages = <<>>
    /\ thread = NoThread
    /\ profiles = NoProfiles
    /\ profile_keys = <<>>
    /\ _score_history = NoProfiles
    /\ calls = NoCalls

\* Lines 240-249: scores.health_assessment is set from the two composites.
AssessHealth ==
    /\ pc = "idle"
    /\ scores' = [scores EXCEPT
                    !.health_assessment = HealthAssessment(scores.drama_score,
                                                           scores.neutrality_score)]
    /\ pc' = "done"
    /\ UNCHANGED <<text, prev, memo, messages, thread, profiles, profile_keys,
                   _score_history, calls>>

\* prev = analyzer._assess_thread_health(drama, neutrality)
AssessThreadHealth ==
    /\ pc = "done"
    /\ \E j \in {0, 1}, k \in {0, 1} :
          \E drama \in {Mean(Max(0, 2 * scores.drama_score - j), 2)},
             neutrality \in {Mean(Max(0, 2 * scores.neutrality_score - k), 2)} :
             prev' = [query |-> "_assess_thread_health",
                      drama |-> drama, neutrality |-> neutrality,
                      returned |-> _assess_thread_health(drama, neutrality)]
    /\ pc' = "assessed"
    /\ UNCHANGED <<text, scores, memo, messages, thread, profiles, profile_keys,
                   _score_history, calls>>

NextHealth == AssessHealth \/ AssessThreadHealth

SpecHealth == InitHealth /\ [][NextHealth]_vars

(***************************************************************************)
(* Claims about analyze (specification Spec).                              *)
(***************************************************************************)
Scored == pc = "done" /\ text.len >= 10
Clamp(x, lo, hi) == IF x < lo THEN lo ELSE IF x > hi THEN hi ELSE x
InRange(x) == 0 <= x /\ x <= 1000

\* C1: every bounded field of the DimensionalScores returned by analyze lies
\* in [0,10]: drama_score, neutrality_score, vader_negativity, subjectivity,
\* politeness, face_threats, argument_quality and fallacy_score.
C1_Bounded ==
    pc = "done" =>
        /\ InRange(scores.drama_score)
        /\ InRange(scores.neutrality_score)
        /\ InRange(scores.vader_negativity)
        /\ InRange(scores.subjectivity)
        /\ InRange(scores.politeness)
        /\ InRange(scores.face_threats)
        /\ InRange(scores.argument_quality)
        /\ InRange(scores.fallacy_score)

\* C1 witness: a scored text whose weighted sum plus penalty exceeds 10, so
\* that the cap is what keeps drama_score at 10.
C1_Witness ==
    /\ Scored
    /\ Round2(DramaWeighted(scores), 100) + StonewallingPenalty(scores) > 1000
    /\ scores.drama_score = 1000

\* C2: for a text whose trimmed length is below 10, analyze returns the
\* defaults: health "unknown", politeness 5, argument_quality 5, every other
\* score and every counter 0.
C2_Degenerate ==
    (pc = "done" /\ text.len < 10) =>
        /\ scores.health_assessment = "unknown"
        /\ scores.politeness = 500 /\ scores.argument_quality = 500
        /\ scores.vader_negativity = 0 /\ scores.subjectivity = 0
        /\ scores.face_threats = 0 /\ scores.fallacy_score = 0
        /\ scores.drama_score = 0 /\ scores.neutrality_score = 0
        /\ scores.directive_count = 0 /\ scores.expressive_count = 0
        /\ scores.accusation_count = 0 /\ scores.challenge_count = 0
        /\ scores.stonewalling_indicators = 0 /\ scores.threat_indicators = 0

\* C2 witness: a 9-character text that matches stonewalling and face-threat
\* patterns and carries negative sentiment has been analysed.
C2_Witness ==
    /\ pc = "done" /\ text.len = 9
    /\ text.counts["STONEWALLING"] > 0 /\ text.counts["FACE_THREATENING"] > 0
    /\ text.compound < 0

\* The 5-branch rule as the claim states it.
C3_Rule(d, n) ==
    CASE d >= 600 /\ n < 500 -> "toxic"
      [] ~(d >= 600 /\ n < 500) /\ d >= 500 /\ n >= 500 -> "heated-but-fair"
      [] ~(d >= 600 /\ n < 500) /\ ~(d >= 500 /\ n >= 500) /\ d < 400 /\ n >= 600 -> "productive"
      [] ~(d >= 600 /\ n < 500) /\ ~(d >= 500 /\ n >= 500) /\ ~(d < 400 /\ n >= 600)
         /\ d < 400 /\ n < 500 -> "dismissive"
      [] OTHER -> "mixed"

\* C3: for a text of trimmed length >= 10 the returned health_assessment is
\* the 5-branch rule applied to the returned drama_score and neutrality_score;
\* (7,3) is toxic, (6,6) heated-but-fair, (2,7) productive, (2,3) dismissive,
\* and (5,5.5) is "mixed" only if no earlier branch matches it.
C3_Health ==
    /\ Scored => scores.health_assessment = C3_Rule(scores.drama_score, scores.neutrality_score)
    /\ HealthAssessment(700, 300) = "toxic"
    /\ HealthAssessment(600, 600) = "heated-but-fair"
    /\ HealthAssessment(200, 700) = "productive"
    /\ HealthAssessment(200, 300) = "dismissive"
    /\ HealthAssessment(500, 550) = "mixed" => C3_Rule(500, 550) = "mixed"

\* C3 witness: a scored text with drama in [5,6) and neutrality >= 5, labelled
\* heated-but-fair by the second branch.
C3_Witness ==
    /\ Scored
    /\ scores.drama_score >= 500 /\ scores.drama_score < 600
    /\ scores.neutrality_score >= 500
    /\ scores.health_assessment = "heated-but-fair"

\* The drama formula of the claim, in 1/10000, from the stored fields.
C4_Formula(s) ==
    LET speech_act_drama == Clamp(s.accusation_count * 300 + s.challenge_count * 250
                                  + s.expressive_count * 150 + s.directive_count * 50, 0, 1000)
        stonewalling_penalty == Clamp(s.stonewalling_indicators * 150, 0, 300)
    IN  Clamp(s.vader_negativity * 20 + (1000 - s.politeness) * 20 + s.face_threats * 15
              + s.subjectivity * 10 + s.fallacy_score * 15 + (1000 - s.argument_quality) * 10
              + speech_act_drama * 10 + stonewalling_penalty * 100, 0, 100000)

\* C4 as stated: drama_score equals the clamped formula exactly.
C4_Original == Scored => scores.drama_score * 100 = C4_Formula(scores)

\* C4 amended: drama_score equals the clamped formula rounded to two decimals
\* (so it is within 0.005 of the formula, on the 0.01 grid).
C4_Drama ==
    Scored =>
        /\ scores.drama_score = Round2(C4_Formula(scores), 100)
        /\ scores.drama_score * 100 - C4_Formula(scores) <= 50
        /\ C4_Formula(scores) - scores.drama_score * 100 <= 50

\* C4 witness: a scored text with the full stonewalling penalty whose formula
\* value is not a multiple of 0.01.
C4_Witness ==
    /\ Scored
    /\ scores.stonewalling_indicators >= 2
    /\ C4_Formula(scores) % 100 # 0

\* The neutrality formula of the claim, in 1/10000, from the stored fields.
C5_Formula(s) ==
    Clamp((1000 - s.subjectivity) * 30 + s.argument_quality * 30 + s.politeness * 20
          + (1000 - s.fallacy_score) * 10 + (1000 - s.face_threats) * 10, 0, 100000)

\* C5 as stated: neutrality_score equals the clamped formula exactly.
C5_Original == Scored => scores.neutrality_score * 100 = C5_Formula(scores)

\* C5 amended: neutrality_score equals the clamped formula, over the stored
\* dimension values, rounded to two decimals.
C5_Neutrality ==
    Scored =>
        /\ scores.neutrality_score = Round2(C5_Formula(scores), 100)
        /\ scores.neutrality_score * 100 - C5_Formula(scores) <= 50
        /\ C5_Formula(scores) - scores.neutrality_score * 100 <= 50

\* C5 witness: a scored text whose neutrality formula is not a multiple of 0.01.
C5_Witness ==
    /\ Scored
    /\ C5_Formula(scores) % 100 # 0
    /\ scores.subjectivity > 0

\* C6: politeness = clamp(5 + (P*2 + H) - (F*2 + I*1.5), 0, 10) and
\* face_threats = clamp((F + I)*2, 0, 10) for the match counts P, H, F, I.
C6_Politeness ==
    Scored =>
        LET P == text.counts["POSITIVE_POLITENESS"]
            H == text.counts["HEDGES"]
            F == text.counts["FACE_THREATENING"]
            I == text.counts["INDIRECT_AGGRESSION"]
        IN  /\ scores.politeness = Clamp(500 + (P * 200 + H * 100) - (F * 200 + I * 150), 0, 1000)
            /\ scores.face_threats = Clamp((F + I) * 200, 0, 1000)

\* C6 witness: a scored text whose unclamped politeness exceeds 10 and that
\* holds indirect aggression.
C6_Witness ==
    /\ Scored
    /\ text.counts["INDIRECT_AGGRESSION"] = 1
    /\ 500 + text.counts["POSITIVE_POLITENESS"] * 200 + text.counts["HEDGES"] * 100
       - text.counts["FACE_THREATENING"] * 200 - 150 > 1000

\* C7: argument_quality = clamp(5 + (E*2 + A*2 + C*1.5) - D*2, 0, 10) for the
\* match counts E, A, C, D.
C7_ArgumentQuality ==
    Scored =>
        LET E == text.counts["EVIDENCE_MARKERS"]
            A == text.counts["ACKNOWLEDGMENT"]
            C == text.counts["CONSTRUCTIVE"]
            D == text.counts["DISMISSIVE"]
        IN  scores.argument_quality = Clamp(500 + (E * 200 + A * 200 + C * 150) - D * 200, 0, 1000)

\* C7 witness: a scored text with one constructive proposal, dismissive
\* language and an unclamped quality strictly inside (0,10).
C7_Witness ==
    /\ Scored
    /\ text.counts["CONSTRUCTIVE"] = 1 /\ text.counts["DISMISSIVE"] > 0
    /\ scores.argument_quality > 0 /\ scores.argument_quality < 1000

\* C8: when a non-degenerate text is analysed again with one more occurrence
\* of a face-threatening phrase (F + 1, everything else unchanged), its
\* face_threats is not lower and its politeness is not higher.
C8_Monotone ==
    [][(/\ pc = "done" /\ ~(text.len < 10)
        /\ text'.counts = [text.counts EXCEPT !["FACE_THREATENING"] = @ + 1])
       => (scores'.face_threats >= scores.face_threats
           /\ scores'.politeness <= scores.politeness)]_vars

\* C8 witness: the second analysis raised face_threats and lowered politeness
\* of a text that was scored before.
C8_Witness ==
    /\ Scored
    /\ prev.health_assessment # "unknown"
    /\ scores.face_threats > prev.face_threats
    /\ scores.politeness < prev.politeness

(***************************************************************************)
(* Claims about analyze_thread (specification SpecThread).                 *)
(***************************************************************************)
\* The drama scores analyze gives the messages of the thread.
MessageDramas == DramaOf(MessageScores(messages))

RECURSIVE SumOver(_, _)
SumOver(S, f) ==
    IF S = {} THEN 0
    ELSE LET x == CHOOSE y \in S : TRUE IN f[x] + SumOver(S \ {x}, f)

\* C11: in the analysis of a non-empty thread an author is flagged
\* is_difficult iff the stonewalling indicators of the author's messages sum
\* to more than 2, or the author's mean drama is above 6 and mean neutrality
\* below 4; difficult_participants lists exactly the flagged authors, each
\* once, in the order of their first messages.
C11_Difficult ==
    (messages # <<>> /\ thread # NoThread) =>
        \A ms \in {MessageScores(messages)} :
            LET n == Len(messages)
                authors == {messages[i].author : i \in 1..n}
                Of(a) == {i \in 1..n : messages[i].author = a}
                First(a) == CHOOSE i \in Of(a) : \A j \in Of(a) : i <= j
                Flagged(a) ==
                    \/ SumOver(Of(a), [i \in 1..n |-> ms[i].stonewalling_indicators]) > 2
                    \/ /\ SumOver(Of(a), [i \in 1..n |-> ms[i].drama_score])
                              > 600 * Cardinality(Of(a))
                       /\ SumOver(Of(a), [i \in 1..n |-> ms[i].neutrality_score])
                              < 400 * Cardinality(Of(a))
                dp == thread.difficult_participants
            IN  /\ DOMAIN thread.author_analysis = authors
                /\ \A a \in authors : thread.author_analysis[a].is_difficult <=> Flagged(a)
                /\ {dp[k] : k \in 1..Len(dp)} = {a \in authors : Flagged(a)}
                /\ \A k, l \in 1..Len(dp) : k < l => First(dp[k]) < First(dp[l])

\* C11 witness: a thread of three authors has been analysed in which the
\* first author is flagged by the means only (stonewalling sum 2), the second
\* is not flagged and the third is flagged by stonewalling only.
C11_Witness ==
    /\ thread # NoThread /\ Len(messages) >= 3
    /\ thread.difficult_participants = <<"achow", "luke">>
    /\ DOMAIN thread.author_analysis = {"achow", "sipa", "luke"}
    /\ thread.author_analysis["achow"].stonewalling_indicators = 2
    /\ thread.author_analysis["luke"].stonewalling_indicators = 3
    /\ thread.author_analysis["luke"].avg_drama <= 600

\* C12: analyze_thread on the empty list returns the sentinel with drama 0,
\* neutrality 5 and health "empty"; the analysis of a non-empty thread has no
\* health "empty": its label is one of the five of the classifier.
C12_Empty ==
    /\ (messages = <<>> /\ thread # NoThread) =>
            /\ DOMAIN thread = {"drama_score", "neutrality_score", "health"}
            /\ thread.drama_score = 0
            /\ thread.neutrality_score = 500
            /\ thread.health = "empty"
            /\ thread.health \notin {"toxic", "heated-but-fair", "productive",
                                     "dismissive", "mixed"}
    /\ (messages # <<>> /\ thread # NoThread) =>
            /\ "health" \notin DOMAIN thread
            /\ thread.health_assessment \in {"toxic", "heated-but-fair", "productive",
                                              "dismissive", "mixed"}

\* C12 witness: the empty message list has been analysed.
C12_Witness ==
    /\ messages = <<>>
    /\ thread # NoThread
    /\ thread.health = "empty"

\* The sums of n scores that give a mean next to a threshold of the
\* classifier, or at an end of [0,10].
NearThresholds(n) ==
    {x * n + k : x \in {400, 500, 600}, k \in {-1, 0, 1}} \cup {0, 1000 * n}

\* C13: the thread-level classifier returns the label the per-message
\* classifier returns for the same (drama, neutrality), and the thread's
\* health_assessment is that label for the thread's mean drama and mean
\* neutrality.  The per-message classifier compares hundredths with whole
\* thresholds, so it reads a mean sum/n as the whole part of sum/n.
C13_SameClassifier ==
    (messages # <<>> /\ thread # NoThread) =>
        \A ms \in {MessageScores(messages)} :
            LET n == Len(messages)
                drama == SumSeq(DramaOf(ms))
                neutrality == SumSeq(NeutralityOf(ms))
            IN  /\ thread.health_assessment = HealthAssessment(drama \div n, neutrality \div n)
                /\ \A d \in NearThresholds(n), m \in NearThresholds(n) :
                      _assess_thread_health(Mean(d, n), Mean(m, n))
                          = HealthAssessment(d \div n, m \div n)

\* C13 witness: a thread of several messages whose mean drama is not a whole
\* number of hundredths has been labelled "mixed".
C13_Witness ==
    /\ thread # NoThread /\ Len(messages) >= 2
    /\ \A ms \in {MessageScores(messages)} : SumSeq(DramaOf(ms)) % Len(messages) # 0
    /\ thread.health_assessment = "mixed"

(***************************************************************************)
(* Claims about malformed records (specification SpecRecords).             *)
(***************************************************************************)
\* The well-formed record the claim reads a record as: an absent or null
\* author is "unknown", an absent or null content is the empty text.
WellFormed(msg) ==
    [author |-> IF "author" \notin DOMAIN msg THEN "unknown"
                ELSE IF msg.author = NoneKey THEN "unknown" ELSE msg.author,
     content |-> IF "content" \notin DOMAIN msg THEN EmptyText
                 ELSE IF msg.content = None THEN EmptyText ELSE msg.content]

\* C14: analyze_thread on a thread with malformed records (author or content
\* absent or null) returns the ThreadAnalysis of the thread in which every
\* such author is "unknown" and every such content is the empty text: no
\* error, and every other message scored and counted as before.
C14_Malformed ==
    messages # <<>> =>
        thread = analyze_thread([i \in 1..Len(messages) |-> WellFormed(messages[i])])

(***************************************************************************)
(* Claims about the profiler (specification SpecProfiler).                 *)
(***************************************************************************)
\* The scores of the messages of handle h in the stream, in arrival order.
ScoresOfHandle(h) ==
    LET own == SelectSeq(messages, LAMBDA m : m.author = h)
    IN  [i \in 1..Len(own) |-> analyze(own[i].content)]

\* The handles that have a message in the stream.
Fed == {messages[i].author : i \in 1..Len(messages)}

\* The profile computed in one batch from a list of scores.
BatchProfile(h, list) ==
    LET n == Len(list)
        Total(field) == SumOver(1..n, [i \in 1..n |-> list[i][field]])
        acts == Total("directive_count") + Total("expressive_count")
                + Total("accusation_count") + Total("challenge_count")
        rate_den == IF acts >= 1 THEN acts ELSE 1
    IN  [handle |-> h,
         message_count |-> n,
         avg_drama |-> [num |-> Total("drama_score"), den |-> n],
         avg_neutrality |-> [num |-> Total("neutrality_score"), den |-> n],
         avg_politeness |-> [num |-> Total("politeness"), den |-> n],
         avg_argument_quality |-> [num |-> Total("argument_quality"), den |-> n],
         avg_subjectivity |-> [num |-> Total("subjectivity"), den |-> n],
         avg_fallacy_rate |-> [num |-> Total("fallacy_score"), den |-> n],
         avg_face_threats |-> [num |-> Total("face_threats"), den |-> n],
         directive_rate |-> FloatMul(FloatDiv(Total("directive_count"), rate_den), 100),
         expressive_rate |-> FloatMul(FloatDiv(Total("expressive_count"), rate_den), 100),
         accusation_rate |-> FloatMul(FloatDiv(Total("accusation_count"), rate_den), 100),
         total_stonewalling |-> Total("stonewalling_indicators"),
         is_difficult |->
            \/ Total("stonewalling_indicators") > 3
            \/ (Total("drama_score") > 600 * n /\ Total("neutrality_score") < 400 * n)
            \/ FloatLess(FloatOfInt(20),
                         FloatMul(FloatDiv(Total("accusation_count"), rate_den), 100))]

\* C15: after any sequence of add_message calls the profile of every handle
\* equals the profile computed in one batch from the handle's messages in
\* arrival order: message_count, the seven means, the three rates,
\* total_stonewalling and is_difficult.
C15_Recompute ==
    /\ DOMAIN profiles = Fed
    /\ \A h \in Fed : profiles[h] = BatchProfile(h, ScoresOfHandle(h))

\* C15 witness: two handles have been fed alternately, one of them two
\* messages of different texts, the second with speech acts.
C15_Witness ==
    /\ Len(messages) = 3
    /\ messages[1].author = "sipa" /\ messages[2].author = "achow"
    /\ messages[3].author = "sipa"
    /\ messages[1].content # messages[3].content
    /\ profiles["sipa"].message_count = 2
    /\ ~IsFloatZero(profiles["sipa"].expressive_rate)
    /\ profiles["sipa"].avg_drama.num > 0

\* C16: for every handle of the profiler, is_difficult is true iff
\* total_stonewalling > 3, or avg_drama > 6 and avg_neutrality < 4, or
\* accusation_rate > 20, on the fields the profile holds.
C16_ProfileDifficult ==
    \A h \in DOMAIN profiles :
        LET p == profiles[h]
        IN  p.is_difficult <=>
                \/ p.total_stonewalling > 3
                \/ /\ p.avg_drama.num > 600 * p.avg_drama.den
                   /\ p.avg_neutrality.num < 400 * p.avg_neutrality.den
                \/ FloatLess(FloatOfInt(20), p.accusation_rate)

\* C16 witness: one handle is flagged by its accusation rate alone, another
\* handle with one stonewalling indicator is not flagged.
C16_Witness ==
    /\ DOMAIN profiles = {"sipa", "achow"}
    /\ profiles["sipa"].is_difficult
    /\ profiles["sipa"].total_stonewalling <= 3
    /\ profiles["sipa"].avg_drama.num <= 600 * profiles["sipa"].avg_drama.den
    /\ ~profiles["achow"].is_difficult
    /\ profiles["achow"].total_stonewalling = 1

\* The double x is exactly 100 * c / t: x.sig * t = 100 * c * 2^(52 - x.exp).
IsExactPercent(x, c, t) ==
    IF c = 0 THEN IsFloatZero(x)
    ELSE ~IsFloatZero(x)
         /\ NatMulAdd(x.sig, t, 0) = NatShiftLeft(NatOfInt(100 * c), 52 - x.exp)

\* The double x is within two units in its last place of 100 * c / t.
IsNearPercent(x, c, t) ==
    IF c = 0 THEN IsFloatZero(x)
    ELSE ~IsFloatZero(x)
         /\ \A scaled \in {NatMulAdd(x.sig, t, 0)},
               exact \in {NatShiftLeft(NatOfInt(100 * c), 52 - x.exp)} :
               /\ ~NatLess(NatMulAdd(exact, 1, 2 * t), scaled)
               /\ ~NatLess(NatMulAdd(scaled, 1, 2 * t), exact)

\* The speech-act counts of the history of handle h: directives,
\* expressives, accusations and all four kinds together.
ActCounts(h) ==
    LET history == _score_history[h]
        n == Len(history)
        Count(field) == SumOver(1..n, [i \in 1..n |-> history[i][field]])
    IN  [directive |-> Count("directive_count"),
         expressive |-> Count("expressive_count"),
         accusation |-> Count("accusation_count"),
         all |-> Count("directive_count") + Count("expressive_count")
                 + Count("accusation_count") + Count("challenge_count")]

\* a + b + carry, for large natural numbers a and b.
RECURSIVE NatAdd(_, _, _)
NatAdd(a, b, carry) ==
    IF a = <<>> THEN NatMulAdd(b, 1, carry)
    ELSE IF b = <<>> THEN NatMulAdd(a, 1, carry)
    ELSE LET v == a[Len(a)] + b[Len(b)] + carry
         IN  Append(NatAdd(SubSeq(a, 1, Len(a) - 1), SubSeq(b, 1, Len(b) - 1), v \div Base),
                    v % Base)

\* x + y, for doubles as the floats add.
FloatAdd(x, y) ==
    IF IsFloatZero(x) THEN y
    ELSE IF IsFloatZero(y) THEN x
    ELSE LET big == IF x.exp >= y.exp THEN x ELSE y
             small == IF x.exp >= y.exp THEN y ELSE x
         IN  RoundToDouble(NatAdd(NatShiftLeft(big.sig, big.exp - small.exp), small.sig, 0),
                           small.exp - (Precision - 1))

\* directive_rate + expressive_rate + accusation_rate, as the floats add up.
RateSum(p) == FloatAdd(FloatAdd(p.directive_rate, p.expressive_rate), p.accusation_rate)

\* 100.00000000000006: 100 and four units in its last place.
HundredAndABit == [exp |-> 6, sig |-> NatMulAdd(FloatOfInt(100).sig, 1, 4)]

\* C17 as stated: each of directive_rate, expressive_rate and accusation_rate
\* of a handle equals 100 * (that act's count over the history) / max(1,
\* directive + expressive + accusation + challenge counts over the history);
\* the rates are 0 without speech acts, each lies in [0,100] and the three
\* sum to at most 100.
C17_Original ==
    \A h \in DOMAIN profiles :
        \A p \in {profiles[h]}, k \in {ActCounts(h)} :
            /\ IsExactPercent(p.directive_rate, k.directive, Max(1, k.all))
            /\ IsExactPercent(p.expressive_rate, k.expressive, Max(1, k.all))
            /\ IsExactPercent(p.accusation_rate, k.accusation, Max(1, k.all))
            /\ k.all = 0 => (IsFloatZero(p.directive_rate) /\ IsFloatZero(p.expressive_rate)
                             /\ IsFloatZero(p.accusation_rate))
            /\ ~FloatLess(FloatOfInt(100), p.directive_rate)
            /\ ~FloatLess(FloatOfInt(100), p.expressive_rate)
            /\ ~FloatLess(FloatOfInt(100), p.accusation_rate)
            /\ ~FloatLess(FloatOfInt(100), RateSum(p))

\* C17 amended: each of the three rates is the float nearest to count /
\* max(1, total) times 100, within two units in the last place of 100 *
\* count / max(1, total); the denominator is never 0, the rates are 0
\* without speech acts, each lies in [0,100], and the three sum to at most
\* 100 up to the rounding of the floats (at most 100.00000000000006).
C17_Rates ==
    \A h \in DOMAIN profiles :
        \A p \in {profiles[h]}, k \in {ActCounts(h)} :
            /\ Max(1, k.all) > 0
            /\ IsNearPercent(p.directive_rate, k.directive, Max(1, k.all))
            /\ IsNearPercent(p.expressive_rate, k.expressive, Max(1, k.all))
            /\ IsNearPercent(p.accusation_rate, k.accusation, Max(1, k.all))
            /\ k.all = 0 => (IsFloatZero(p.directive_rate) /\ IsFloatZero(p.expressive_rate)
                             /\ IsFloatZero(p.accusation_rate))
            /\ ~FloatLess(FloatOfInt(100), p.directive_rate)
            /\ ~FloatLess(FloatOfInt(100), p.expressive_rate)
            /\ ~FloatLess(FloatOfInt(100), p.accusation_rate)
            /\ k.directive + k.expressive + k.accusation <= Max(1, k.all)
            /\ ~FloatLess(HundredAndABit, RateSum(p))

\* C17 witness: one handle has only messages without speech acts; the other
\* has 1 directive, 7 expressives and 1 accusation in 9 speech acts, and its
\* three rates add up to more than 100.
C17_Witness ==
    /\ DOMAIN profiles = {"sipa", "achow"}
    /\ profiles["achow"].message_count >= 1
    /\ ActCounts("achow").all = 0
    /\ IsFloatZero(profiles["achow"].accusation_rate)
    /\ ActCounts("sipa") = [directive |-> 1, expressive |-> 7, accusation |-> 1, all |-> 9]
    /\ FloatLess(FloatOfInt(100), RateSum(profiles["sipa"]))

\* C18: a handle has a profile and a history iff a message of it was fed;
\* the add_message call for a message of handle h leaves h with the history
\* it had (none before its first message) plus exactly one score record, the
\* scores of that message, and with message_count equal to the length of
\* the history, which is the number of messages fed for h, short ones
\* included; no handle leaves the profiler and no history shrinks.
C18_Lifecycle ==
    [][/\ DOMAIN profiles = Fed /\ DOMAIN _score_history = Fed
       /\ DOMAIN profiles \subseteq DOMAIN profiles'
       /\ \A g \in DOMAIN _score_history :
             /\ Len(_score_history'[g]) >= Len(_score_history[g])
             /\ SubSeq(_score_history'[g], 1, Len(_score_history[g])) = _score_history[g]
       /\ \A m \in {messages'[Len(messages')]} :
             LET h == m.author
                 before == IF h \in Fed THEN _score_history[h] ELSE <<>>
             IN  /\ h \in DOMAIN profiles' /\ h \in DOMAIN _score_history'
                 /\ _score_history'[h] = Append(before, analyze(m.content))
                 /\ profiles'[h].message_count = Len(_score_history'[h])
                 /\ profiles'[h].message_count
                       = Cardinality({i \in 1..Len(messages') : messages'[i].author = h})
                 /\ \A g \in Fed \ {h} :
                       /\ _score_history'[g] = _score_history[g]
                       /\ profiles'[g] = profiles[g]]_vars

\* C18 witness: a handle fed a short message after its first message has
\* two messages counted, while the other handle has a profile of its own.
C18_Witness ==
    /\ Len(messages) = 3
    /\ messages[1].author = "sipa" /\ messages[2].author = "achow"
    /\ messages[3] = [author |-> "sipa", content |-> ShortText]
    /\ profiles["sipa"].message_count = 2
    /\ Len(_score_history["sipa"]) = 2
    /\ profiles["achow"].message_count = 1

\* C19: get_profile(h) returns the profile of h iff a message of h was fed
\* and None otherwise; get_difficult_participants() lists exactly the
\* handles whose is_difficult is true, none twice.
C19_Queries ==
    /\ \A h \in ProfilerHandles \cup {"luke"} :
          /\ h \in Fed => (get_profile(h) = profiles[h] /\ get_profile(h).handle = h)
          /\ h \notin Fed => get_profile(h) = None
    /\ \A dp \in {get_difficult_participants} :
          /\ {dp[k] : k \in 1..Len(dp)} = {h \in Fed : profiles[h].is_difficult}
          /\ \A k, l \in 1..Len(dp) : dp[k] = dp[l] => k = l

\* C19 witness: one of two handles is flagged, the other is not, and a
\* third handle has never been fed.
C19_Witness ==
    /\ Fed = {"sipa", "achow"}
    /\ get_profile("luke") = None
    /\ get_profile("achow").is_difficult
    /\ ~get_profile("sipa").is_difficult
    /\ get_difficult_participants = <<"achow">>
    /\ profile_keys = <<"sipa", "achow">>

(***************************************************************************)
(* Claims about concurrent callers (specification SpecConcurrent).         *)
(***************************************************************************)
\* C20: when the add_message calls of callers with different handles have
\* run with their statements interleaved in any order and all have
\* returned, every handle has the history and the profile that its calls
\* alone produce when run one after the other: the scores of its messages
\* in the order posted and the batch profile over them, whatever the calls
\* for the other handles did in between; a handle without a call has
\* neither.
C20_Independent ==
    (\A t \in Callers : calls[t].pc = "idle") =>
        /\ DOMAIN profiles = {calls[t].handle : t \in {u \in Callers : calls[u].posted # <<>>}}
        /\ DOMAIN _score_history = DOMAIN profiles
        /\ \A t \in Callers :
              calls[t].posted # <<>> =>
                 \A list \in {[i \in 1..Len(calls[t].posted) |-> analyze(calls[t].posted[i])]} :
                    /\ _score_history[calls[t].handle] = list
                    /\ profiles[calls[t].handle] = BatchProfile(calls[t].handle, list)
                    /\ profiles[calls[t].handle]
                          = _update_profile(ParticipantProfile(calls[t].handle), list)

\* C20 witness: both callers have returned from two calls each, with
\* different texts, and statements of both ran while the other caller was
\* inside add_message.
C20_Witness ==
    /\ \A t \in Callers :
          /\ calls[t].pc = "idle"
          /\ Len(calls[t].posted) = 2
          /\ calls[t].posted[1] # calls[t].posted[2]
          /\ calls[t].raced
    /\ profiles["sipa"].message_count = 2
    /\ profiles["achow"].message_count = 2

(***************************************************************************)
(* Claims about the end-to-end scenarios (specification SpecScenario).     *)
(***************************************************************************)
\* C21: the text "No. Already discussed. Not going to repeat myself. Waste of
\* time." is analysed with stonewalling_indicators > 0 and drama_score >= 4,
\* whatever the sentiment and subjectivity scorers return for it.
C21_Stonewall ==
    (pc = "done" /\ text.raw = StonewallText)
        => /\ scores.stonewalling_indicators > 0
           /\ scores.drama_score >= 400

\* C21 witness: the text was analysed with the most positive sentiment and no
\* subjectivity, the case of the lowest drama: three stonewalling phrases
\* ("already discussed", "not going to", "waste of time"), drama 4.9.
C21_Witness ==
    /\ pc = "done"
    /\ text.raw = StonewallText
    /\ text.compound = 10000
    /\ text.subjectivity = 0
    /\ scores.stonewalling_indicators = 3
    /\ scores.drama_score = 490

\* C22: the text "I see your point about the performance implications. What if
\* we tried caching the intermediate results? I can submit a proof of concept."
\* is analysed with argument_quality > 5 and a health_assessment that is
\* "productive" or "mixed", never "toxic", whatever the sentiment and
\* subjectivity scorers return for it.
C22_Proposal ==
    (pc = "done" /\ text.raw = ProposalText)
        => /\ scores.argument_quality > 500
           /\ scores.health_assessment \in {"productive", "mixed"}
           /\ scores.health_assessment # "toxic"

\* C22 witness: the text was analysed with the most negative sentiment and
\* full subjectivity, the case of the highest drama: one acknowledgment and
\* two proposals, drama 4.0 and the label "mixed".
C22_Witness ==
    /\ pc = "done"
    /\ text.raw = ProposalText
    /\ text.compound = -10000
    /\ text.subjectivity = 10000
    /\ text.counts["ACKNOWLEDGMENT"] = 1
    /\ text.counts["CONSTRUCTIVE"] = 2
    /\ scores.drama_score = 400
    /\ scores.health_assessment = "mixed"

(***************************************************************************)
(* Claims about the pattern sets (specification SpecPhrases).              *)
(***************************************************************************)
\* The end of the longest match of any rule of the set at position p, or 0.
RECURSIVE LongestEnd(_, _, _)
LongestEnd(subject, patterns, p) ==
    IF patterns = <<>> THEN 0
    ELSE LET pattern == Head(patterns)
             ends == MatchEnds(pattern.re, IF "I" \in pattern.flags THEN subject.folded
                                           ELSE subject.raw, p)
         IN  Max(IF ends = <<>> THEN 0 ELSE ends[1], LongestEnd(subject, Tail(patterns), p))

\* The stretches of text that match some rule of the set, each <<start, end>>,
\* for the starts lo..hi.
RECURSIVE Stretches(_, _, _, _)
Stretches(subject, patterns, lo, hi) ==
    IF lo > hi THEN <<>>
    ELSE IF lo = hi
    THEN LET end == LongestEnd(subject, patterns, lo)
         IN  IF end = 0 THEN <<>> ELSE <<<<lo, end>>>>
    ELSE LET mid == (lo + hi) \div 2
         IN  Stretches(subject, patterns, lo, mid) \o Stretches(subject, patterns, mid + 1, hi)

\* The number of non-overlapping occurrences in t that match any rule of the set.
Occurrences(t, patterns) == Scan(Stretches(Subject(t), patterns, 1, Len(t) + 1), 1)

\* C23: the count analyze uses for a category is the number of non-overlapping
\* occurrences in the text that match any rule of the category's set: a
\* stretch of text covered by two rules of the set is counted once.
C23_NonOverlapping ==
    (pc = "done" /\ ~IsDegenerate(text))
        => \A k \in PatternSets :
              scores.evidence.patterns[k] = Occurrences(text.raw, PatternLibrary[k])

\* The pattern sets built by compile_patterns, and the rule it builds for "ack".
PhraseSets == {"POSITIVE_POLITENESS", "HEDGES", "FACE_THREATENING", "INDIRECT_AGGRESSION",
               "ACKNOWLEDGMENT", "CONSTRUCTIVE", "DISMISSIVE", "STONEWALLING", "THREATS"}
AckRule == compile_patterns(<<"ack">>, TRUE)[1]

\* The phrase of a rule built by compile_patterns, folded to lower case.
PhraseOf(rule) == rule.re.of[2].s

\* The phrase occurs at position p of s.
OccursAt(phrase, s, p) ==
    p + Len(phrase) - 1 <= Len(s) /\ SubSeq(s, p, p + Len(phrase) - 1) = phrase

\* The occurrence at p is embedded in a longer word: a word continues across
\* its first or its last character.
Embedded(phrase, s, p) ==
    \/ IsWord(s, p - 1) /\ IsWord(s, p)
    \/ IsWord(s, p + Len(phrase) - 1) /\ IsWord(s, p + Len(phrase))

\* The occurrence at p stands as its own token(s): it starts the text or
\* follows whitespace, and whitespace or the end of the text follows it.
OwnTokens(phrase, s, p) ==
    /\ p = 1 \/ SubSeq(s, p - 1, p - 1) \in Whitespace
    /\ p + Len(phrase) = Len(s) + 1
       \/ SubSeq(s, p + Len(phrase), p + Len(phrase)) \in Whitespace

\* What C24 says of one rule and the text t.
TokenAnchored(rule, t) ==
    LET s == Lower(t)
        phrase == PhraseOf(rule)
    IN  \A p \in 1..Len(s) :
            OccursAt(phrase, s, p) =>
                /\ Embedded(phrase, s, p) => MatchEnds(rule.re, s, p) = <<>>
                /\ OwnTokens(phrase, s, p) => MatchEnds(rule.re, s, p) # <<>>

\* C24: every phrase rule built by compile_patterns matches, whatever the case
\* of the letters, the occurrences of its phrase that are delimited by token
\* boundaries: an occurrence embedded in a longer word is not matched ("ack"
\* in "backup"), and an occurrence that stands as its own token(s), followed
\* by whitespace or the end of the text, is matched, also when the phrase ends
\* in punctuation ("no.", "nope.", "wrong.", "no offense,").
C24_TokenBoundaries ==
    /\ TokenAnchored(AckRule, text.raw)
    /\ \A k \in PhraseSets : \A i \in DOMAIN PatternLibrary[k] :
          TokenAnchored(PatternLibrary[k][i], text.raw)

(***************************************************************************)
(* Claims about the reported thread scores (specification SpecBorder).     *)
(***************************************************************************)
\* analyze_thread returned the analysis of a thread with messages.
ThreadScored == "thread_drama_score" \in DOMAIN thread

\* C26 as stated: the reported health_assessment is the 5-branch
\* classification of the reported thread_drama_score and
\* thread_neutrality_score, which are rounded to 2 decimals.
C26_Original ==
    ThreadScored =>
        thread.health_assessment
            = HealthAssessment(thread.thread_drama_score, thread.thread_neutrality_score)

\* The 5-branch classification of the means sum_drama / n and
\* sum_neutrality / n, compared without rounding.
ClassifyMeans(sum_drama, sum_neutrality, n) ==
    IF sum_drama >= 600 * n /\ sum_neutrality < 500 * n THEN "toxic"
    ELSE IF sum_drama >= 500 * n /\ sum_neutrality >= 500 * n THEN "heated-but-fair"
    ELSE IF sum_drama < 400 * n /\ sum_neutrality >= 600 * n THEN "productive"
    ELSE IF sum_drama < 400 * n /\ sum_neutrality < 500 * n THEN "dismissive"
    ELSE "mixed"

\* C26, amended: the reported health_assessment is the 5-branch classification
\* of the unrounded means of the per-message drama and neutrality scores; it
\* is the classification of the reported (rounded) scores unless rounding
\* raised a mean onto a threshold from below (drama 4, 5 or 6, neutrality 5
\* or 6).
C26_Health ==
    ThreadScored =>
        LET message_scores == MessageScores(messages)
            n == Len(messages)
            sum_drama == SumSeq(DramaOf(message_scores))
            sum_neutrality == SumSeq(NeutralityOf(message_scores))
            drama == thread.thread_drama_score
            neutrality == thread.thread_neutrality_score
        IN  /\ drama = Round2(sum_drama, n)
            /\ neutrality = Round2(sum_neutrality, n)
            /\ thread.health_assessment = ClassifyMeans(sum_drama, sum_neutrality, n)
            /\ thread.health_assessment # HealthAssessment(drama, neutrality)
                  => \/ drama \in {400, 500, 600} /\ sum_drama < drama * n
                     \/ neutrality \in {500, 600} /\ sum_neutrality < neutrality * n

\* C26 witness: three replies with drama 6.0, 6.0 and 5.99 and neutrality
\* below 5: the mean drama 5.9967 is reported as 6.0 and the thread is
\* "mixed", while a drama of 6.0 with this neutrality classifies as "toxic".
C26_Witness ==
    /\ ThreadScored
    /\ Len(messages) = 3
    /\ DramaOf(MessageScores(messages)) = <<600, 600, 599>>
    /\ thread.thread_drama_score = 600
    /\ thread.thread_neutrality_score < 500
    /\ thread.health_assessment = "mixed"
    /\ HealthAssessment(thread.thread_drama_score, thread.thread_neutrality_score) = "toxic"

(***************************************************************************)
(* Claims about messages too short to be scored (specification             *)
(* SpecDegenerate).                                                        *)
(***************************************************************************)
\* The positions in the stream of the messages of author a.
PositionsOf(a) == {i \in 1..Len(messages) : messages[i].author = a}
\* The positions in the stream of the messages too short to be scored.
DegeneratePositions == {i \in 1..Len(messages) : messages[i].content.len < 10}

\* The sum of field over the scores of the scored messages at positions.
RECURSIVE ScoredSum(_, _)
ScoredSum(positions, field) ==
    IF positions = {} THEN 0
    ELSE LET i == CHOOSE j \in positions : TRUE
         IN  _calculate_composite_scores(Dimensions(messages[i].content))[field]
             + ScoredSum(positions \ {i}, field)

\* C27: a message whose trimmed length is below 10 is not skipped by
\* analyze_thread and add_message: it counts toward message_count and the
\* author's count and enters the means with drama 0 and neutrality 0.  A
\* non-empty thread of such messages only has thread_drama_score 0,
\* thread_neutrality_score 0 and health "dismissive", although each message
\* alone is labelled "unknown".
C27_Degenerate ==
    messages # <<>> =>
        LET n == Len(messages)
            scored == (1..n) \ DegeneratePositions
        IN  /\ thread.message_count = n
            /\ thread.thread_drama_score = Round2(ScoredSum(scored, "drama_score"), n)
            /\ thread.thread_neutrality_score = Round2(ScoredSum(scored, "neutrality_score"), n)
            /\ \A i \in 1..n :
                  LET a == messages[i].author
                      mine == PositionsOf(a)
                  IN  /\ thread.author_analysis[a].message_count = Cardinality(mine)
                      /\ thread.author_analysis[a].avg_drama
                            = Round2(ScoredSum(mine \ DegeneratePositions, "drama_score"),
                                     Cardinality(mine))
                      /\ profiles[a].message_count = Cardinality(mine)
                      /\ Len(_score_history[a]) = Cardinality(mine)
                      /\ profiles[a].avg_drama.den = Cardinality(mine)
                      /\ profiles[a].avg_drama.num
                            = ScoredSum(mine \ DegeneratePositions, "drama_score")
                      /\ profiles[a].avg_neutrality.den = Cardinality(mine)
                      /\ profiles[a].avg_neutrality.num
                            = ScoredSum(mine \ DegeneratePositions, "neutrality_score")
            /\ scored = {} =>
                  /\ thread.thread_drama_score = 0
                  /\ thread.thread_neutrality_score = 0
                  /\ thread.health_assessment = "dismissive"
                  /\ \A i \in 1..n :
                        analyze(messages[i].content).health_assessment = "unknown"

\* C27 witness: a thread of three messages by two authors, all too short to
\* be scored, one of them only once its blanks are trimmed; it is counted in
\* full and is "dismissive".
C27_Witness ==
    /\ Len(messages) = 3
    /\ DegeneratePositions = {1, 2, 3}
    /\ \E i \in 1..3 : messages[i].content = TerseText
    /\ \E i \in 1..3 : messages[i].content = ShortText
    /\ thread.message_count = 3
    /\ thread.unique_authors = 2
    /\ thread.health_assessment = "dismissive"
    /\ \E a \in DegenerateHandles :
          a \in DOMAIN profiles /\ profiles[a].message_count = 2

(***************************************************************************)
(* Claims about unserialized calls for one handle (specification           *)
(* SpecSameHandle).                                                        *)
(***************************************************************************)
\* No caller is inside add_message, and a call was made.
Quiescent ==
    /\ \A t \in Callers : calls[t].pc \in {"idle", "KeyError"}
    /\ \E t \in Callers : calls[t].posted # <<>>
\* The number of add_message calls made for the handle.
CallsFor(h) == SumSeq([t \in 1..Cardinality(Callers) |->
                          IF calls[t].handle = h THEN Len(calls[t].posted) ELSE 0])

ExplicitLabels == {"toxic", "heated-but-fair", "productive", "dismissive"}

\* label is what the branches assign to (drama, neutrality) in whatever
\* order they are evaluated.
OrderFree(label, drama, neutrality) ==
    /\ \A a \in ExplicitLabels, b \in ExplicitLabels :
          a # b => ~(BranchHolds(a, drama, neutrality) /\ BranchHolds(b, drama, neutrality))
    /\ \A a \in ExplicitLabels : BranchHolds(a, drama, neutrality) => label = a
    /\ (\A a \in ExplicitLabels : ~BranchHolds(a, drama, neutrality)) => label = "mixed"
    /\ Ge(drama, 400) /\ Lt(drama, 500) => label = "mixed"

\* C29: the conditions of the four explicit branches of the health
\* classification (toxic, heated-but-fair, productive, dismissive) exclude
\* each other on every pair (drama, neutrality), so the label is that of the
\* one branch that holds, whatever the order of evaluation, and "mixed" if
\* none holds; every pair with 4 <= drama < 5 is "mixed".
C29_Exclusive ==
    /\ pc \in {"done", "assessed"} =>
          OrderFree(scores.health_assessment,
                    Mean(scores.drama_score, 1), Mean(scores.neutrality_score, 1))
    /\ pc = "assessed" => OrderFree(prev.returned, prev.drama, prev.neutrality)

\* C29 witness: a message with drama 5.0 and neutrality 4.99 is "mixed",
\* where only the neutrality keeps it from heated-but-fair and only the drama
\* from toxic; the means (4.995, 4.99) are "mixed" as well.
C29_Witness ==
    /\ pc = "assessed"
    /\ scores.drama_score = 500
    /\ scores.neutrality_score = 499
    /\ scores.health_assessment = "mixed"
    /\ prev.drama = Mean(999, 2)
    /\ prev.neutrality = Mean(998, 2)
    /\ prev.returned = "mixed"

(***************************************************************************)
(* Claims about the difficult flag over time (specification SpecProfiler). *)
(***************************************************************************)
\* The mean-drama/neutrality or the accusation-rate condition of is_difficult
\* holds of the profile.
FlaggedByScores(profile) ==
    \/ (Gt(profile.avg_drama, 600) /\ Lt(profile.avg_neutrality, 400))
    \/ FloatLess(FloatOfInt(20), profile.accusation_rate)

\* C30: across an add_message call the total_stonewalling of a handle never
\* decreases; hence once it exceeds 3 the handle's is_difficult is true after
\* every later add_message.  While it is at most 3 the flag is not kept: after
\* the call it is the mean-drama/neutrality or accusation-rate condition of
\* the new profile, whatever it was before.
C30_Sticky ==
    [][\A h \in DOMAIN profiles' :
          /\ h \in DOMAIN profiles =>
                /\ profiles'[h].total_stonewalling >= profiles[h].total_stonewalling
                /\ profiles[h].total_stonewalling > 3 =>
                      profiles'[h].total_stonewalling > 3 /\ profiles'[h].is_difficult
          /\ profiles'[h].total_stonewalling > 3 => profiles'[h].is_difficult
          /\ profiles'[h].total_stonewalling <= 3 =>
                profiles'[h].is_difficult = FlaggedByScores(profiles'[h])]_vars

\* The profile of handle h as it was before its last message.
Before(h) ==
    _update_profile(ParticipantProfile(h),
                    SubSeq(_score_history[h], 1, Len(_score_history[h]) - 1))

\* C30 witness: a handle whose total_stonewalling exceeded 3 after two
\* messages got a third; neither the means nor the accusation rate flag the
\* profile, and is_difficult is still true.
C30_Witness ==
    \E h \in DOMAIN profiles :
        /\ Len(_score_history[h]) = 3
        /\ Before(h).total_stonewalling > 3
        /\ profiles[h].total_stonewalling >= Before(h).total_stonewalling
        /\ ~FlaggedByScores(profiles[h])
        /\ profiles[h].is_difficult

\* A handle flagged by its scores alone lost the flag with its last message.
C30_Cleared ==
    \E h \in DOMAIN profiles :
        /\ Len(_score_history[h]) >= 2
        /\ Before(h).is_difficult
        /\ Before(h).total_stonewalling <= 3
        /\ ~profiles[h].is_difficult

(***************************************************************************)
(* Claims about the frame of the calls (specification SpecFrame).          *)
(***************************************************************************)
\* The thread result held is that of a call on the present message list (the
\* list only grows, so a result for a list of this length is one for this list).
AnalysedThisList ==
    IF "message_count" \in DOMAIN thread THEN thread.message_count = Len(messages)
    ELSE thread = EmptyThreadAnalysis /\ messages = <<>>

\* C25: add_message(h, c) changes only the profile and the history of h and
\* leaves those of every other handle as they were; analyze, analyze_thread,
\* get_profile, get_all_profiles and get_difficult_participants change nothing
\* of the profiler; and analyze_thread on a message list it has analysed
\* before returns the same result again.
C25_Frame ==
    [][/\ messages' # messages =>
            LET h == messages'[Len(messages')].author
            IN  /\ DOMAIN profiles' = DOMAIN profiles \cup {h}
                /\ DOMAIN _score_history' = DOMAIN _score_history \cup {h}
                /\ \A o \in DOMAIN profiles \ {h} :
                      /\ profiles'[o] = profiles[o]
                      /\ _score_history'[o] = _score_history[o]
                /\ Len(_score_history'[h]) = 1 + (IF h \in DOMAIN _score_history
                                                  THEN Len(_score_history[h]) ELSE 0)
       /\ messages' = messages =>
            /\ profiles' = profiles
            /\ profile_keys' = profile_keys
            /\ _score_history' = _score_history
       /\ (messages' = messages /\ AnalysedThisList) => thread' = thread
      ]_vars

\* C25 witness: the second handle got its first profile while the first
\* handle had two messages on record, the thread of the three messages was
\* analysed, a text was analysed and all profiles were queried.
C25_Witness ==
    /\ Len(messages) = 3
    /\ messages[3].author # messages[1].author
    /\ messages[2].author = messages[1].author
    /\ profiles[messages[1].author].message_count = 2
    /\ profiles[messages[3].author].message_count = 1
    /\ AnalysedThisList
    /\ scores.drama_score > 0
    /\ "query" \in DOMAIN prev
    /\ prev.query = "get_all_profiles"
    /\ DOMAIN prev.returned = ProfilerHandles

====
